---------------------------- MODULE Spec2Model ----------------------------
(***************************************************************************)
(* Model of the Mnemosyne memory engine (src/mnemosyne): the three-tier    *)
(* MemoryStore, the Curator, the Oracle and the MnemosyneEngine turn.       *)
(*                                                                         *)
(* Conventions.                                                            *)
(*  - heat, confidence, similarity thresholds: integers in hundredths      *)
(*    (1.0 is 100).  The code computes them in IEEE doubles, so a heat     *)
(*    whose decimal value sits exactly on a threshold compares either way  *)
(*    (1.0 decayed 23 times is 0.07999999999999965 < 0.08): every such     *)
(*    comparison takes a rounding bit, chosen per record by the action.    *)
(*  - a string is a record [pad, wide, words]: leading/trailing blanks,    *)
(*    doubled inner blanks, and the words in order.                        *)
(*  - a MemoryObject is a heap cell (store.objs[ref]); the recent and the  *)
(*    searchable tier hold references, the durable tier holds rows.        *)
(*  - created_at / updated_at (wall-clock stamps) are left out.            *)
(*  - in the engine turn a step of a thread is one call of the code        *)
(*    (retrieve, the LLM call, each append to the history, the slice,     *)
(*    extract, one pass of the loop of process, run_decay); the steps of   *)
(*    the callers and of the background threads interleave.                *)
(***************************************************************************)
EXTENDS Integers, Sequences, FiniteSets, TLC

VARIABLES
    store,      \* the MemoryStore with the Python heap of MemoryObjects
    nextId,     \* the next fresh memory_id (uuid4 in the code)
    last,       \* the last completed call: its name, arguments and result
    batch,      \* Curator.process in progress: candidates, table, decisions
    calls,      \* the number of calls made so far
    turn_number,\* MnemosyneEngine.turn_number
    history,    \* MnemosyneEngine.history
    lock,       \* MnemosyneEngine._lock: the background task holding it
    main,       \* the threads calling chat(): position and locals of each
    tasks,      \* the background thread of each turn: position and locals
    results     \* the TurnResults chat() has returned, in order

storeVars == <<store, nextId, last, batch, calls>>
engineVars == <<turn_number, history, lock, main, tasks, results>>
engineVarsButTasks == <<turn_number, history, lock, main, results>>
vars == <<store, nextId, last, batch, calls,
          turn_number, history, lock, main, tasks, results>>

(***************************** bounds **************************************)
MaxIds == 3
MaxTurn == 2
MaxCalls == 3
MaxBatch == 2
MaxOracleCalls == 2
MaxTurns == 2
MaxAdds == 42
MaxSweeps == 25
MaxCallers == 2
PastTurns == 9
MaxDialogue == 3

(*************************** models.py *************************************)
MemoryType == {"preference", "fact", "entity", "constraint", "commitment"}
MemoryStatus == {"active", "decaying", "evicted"}
CuratorOp == {"ADD", "UPDATE", "DELETE", "NOOP"}

NoRef == 0
NoId == 0
Ids == 1..MaxIds
Turns == 1..MaxTurn

(*************************** strings ***************************************)
\* str.lower() on one word of the vocabulary.
Lower(w) ==
    CASE w = "Vegan" -> "vegan"
      [] w = "Arjun" -> "arjun"
      [] w = "Call"  -> "call"
      [] OTHER       -> w

\* re.findall(r'\d+', w) on one word of the vocabulary, as a set.
Digits(w) ==
    CASE w = "5pm" -> {"5"}
      [] w = "8pm" -> {"8"}
      [] w = "9pm" -> {"9"}
      [] OTHER     -> {}

Str(ws) == [pad |-> FALSE, wide |-> FALSE, words |-> ws]
Padded(s) == [s EXCEPT !.pad = TRUE]
Wide(s) == [s EXCEPT !.wide = TRUE]

Vegetarian == Str(<<"vegetarian">>)
Vegan == Str(<<"vegan">>)
CallAfter5 == Str(<<"call", "after", "5pm">>)
CallAfter8 == Str(<<"call", "after", "8pm">>)
CallAfter8Sharp == Str(<<"call", "after", "8pm", "sharp">>)

\* s.lower().strip()
LowerStrip(s) ==
    [pad |-> FALSE, wide |-> s.wide,
     words |-> [i \in DOMAIN s.words |-> Lower(s.words[i])]]

\* s.split()
Split(s) == s.words

Range(q) == {q[i] : i \in DOMAIN q}

\* set(re.findall(r'\d+', s))
Nums(s) == UNION {Digits(w) : w \in Range(s.words)}

\* f"{key}: {value}"
EmbedText(k, v) == [key |-> k, value |-> v]

\* MemoryObject.to_prompt_fragment() split on blanks, counted: "[TYPE]",
\* "key:" and the words of the value (keys are single snake_case words).
FragmentWords(o) == 2 + Len(Split(o.value))

(************************ MemoryObject *************************************)
\* MemoryObject(...) with __post_init__ filling embed_text.
MemoryObject(id, ty, k, v, src, lrt, h, c) ==
    [memory_id |-> id, type |-> ty, key |-> k, value |-> v,
     source_turn |-> src, last_recalled_turn |-> lrt,
     heat |-> h, confidence |-> c, status |-> "active",
     embed_text |-> EmbedText(k, v)]

(************************ heat arithmetic **********************************)
HEAT_DECAY_PER_TURN == 4
HEAT_RECALL_BOOST == 25
HEAT_EVICT_THRESHOLD == 8
HEAT_DECAYING_BELOW == 30
HEAT_ONE == 100
HOT_SIZE == 40

MaxOf(X) == CHOOSE m \in X : \A x \in X : x <= m
MinOf(X) == CHOOSE m \in X : \A x \in X : m <= x
Min(a, b) == IF a <= b THEN a ELSE b
Max(a, b) == IF a >= b THEN a ELSE b

\* h < t on doubles: decided by the decimals unless they coincide, where
\* the accumulated rounding error (the bit lo) decides.
HeatLess(h, t, lo) == h < t \/ (h = t /\ lo)

(*************************** HotTier ***************************************)
\* deque(maxlen=HOT_SIZE).appendleft
HotAdd(S, ref) ==
    LET q == <<ref>> \o S.hot
    IN [S EXCEPT !.hot = SubSeq(q, 1, Min(Len(q), HOT_SIZE))]

(*************************** WarmTier **************************************)
WarmIndex(S, id) ==
    LET hits == {i \in DOMAIN S.warm : S.objs[S.warm[i]].memory_id = id}
    IN IF hits = {} THEN 0 ELSE CHOOSE i \in hits : TRUE

WarmGetById(S, id) ==
    IF WarmIndex(S, id) = 0 THEN NoRef ELSE S.warm[WarmIndex(S, id)]

\* The object the searchable tier holds for id.
WarmObj(S, id) == S.objs[WarmGetById(S, id)]

WarmIds(S) == {S.objs[S.warm[i]].memory_id : i \in DOMAIN S.warm}

\* _memories[memory_id] = memory (a dict keeps the position of a key it
\* already has) and collection.upsert of the document.
WarmUpsert(S, ref) ==
    LET o == S.objs[ref]
        i == WarmIndex(S, o.memory_id)
    IN [S EXCEPT
          !.warm = IF i = 0 THEN Append(S.warm, ref)
                   ELSE [S.warm EXCEPT ![i] = ref],
          !.chroma = (o.memory_id :> o.embed_text) @@ S.chroma]

SeqRemoveAt(q, i) == SubSeq(q, 1, i - 1) \o SubSeq(q, i + 1, Len(q))

Restrict(f, D) == [x \in D |-> f[x]]

WarmRemove(S, id) ==
    LET i == WarmIndex(S, id)
    IN [S EXCEPT
          !.warm = IF i = 0 THEN S.warm ELSE SeqRemoveAt(S.warm, i),
          !.chroma = Restrict(S.chroma, DOMAIN S.chroma \ {id})]

WarmGetAll(S) == S.warm

WarmGetByType(S, ty) == SelectSeq(S.warm, LAMBDA r : S.objs[r].type = ty)

(*************************** ColdTier **************************************)
\* INSERT ... ON CONFLICT(memory_id) DO UPDATE SET value, last_recalled_turn,
\* heat, confidence, status (and updated_at): the other columns keep the
\* values of the first insert.
ColdUpsert(S, ref) ==
    LET o == S.objs[ref]
        id == o.memory_id
    IN [S EXCEPT !.cold =
          IF id \in DOMAIN S.cold
          THEN [S.cold EXCEPT ![id] =
                  [@ EXCEPT !.value = o.value,
                            !.last_recalled_turn = o.last_recalled_turn,
                            !.heat = o.heat,
                            !.confidence = o.confidence,
                            !.status = o.status]]
          ELSE (id :> o) @@ S.cold]

ColdDelete(S, id) ==
    [S EXCEPT !.cold = Restrict(S.cold, DOMAIN S.cold \ {id})]

\* SELECT * ... WHERE status IN ('active', 'decaying')
ColdGetAllActive(S) ==
    {id \in DOMAIN S.cold : S.cold[id].status \in {"active", "decaying"}}

(************************** heap cells *************************************)
NewRef(S) == CHOOSE r \in 1..(Cardinality(DOMAIN S.objs) + 1) :
                 r \notin DOMAIN S.objs

Alloc(S, o) == [S EXCEPT !.objs = (NewRef(S) :> o) @@ S.objs]

\* ColdTier.get_by_id / _row_to_obj: a new object built from the row.
ColdGetById(S, id) ==
    IF id \in DOMAIN S.cold THEN Alloc(S, S.cold[id]) ELSE S

(************************** MemoryStore *************************************)
\* MemoryStore.__init__ on an environment with nothing on disk.
EmptyStore(path) ==
    [db_path |-> path, objs |-> <<>>, hot |-> <<>>, warm |-> <<>>,
     chroma |-> <<>>, cold |-> <<>>]

StoreAdd(S, ref) == ColdUpsert(WarmUpsert(HotAdd(S, ref), ref), ref)

\* StoreUpdate falling back to the recent tier for an id that the
\* searchable and the durable tier no longer hold.
StoreUpdateFromHot(S, id, new_value, turn) ==
    LET inWarm == WarmGetById(S, id) # NoRef
        inHot == {S.hot[i] : i \in {j \in DOMAIN S.hot :
                                     S.objs[S.hot[j]].memory_id = id}}
        S1 == IF inWarm \/ id \notin DOMAIN S.cold THEN S
              ELSE ColdGetById(S, id)
        ref == IF inWarm THEN WarmGetById(S, id)
               ELSE IF id \in DOMAIN S.cold THEN NewRef(S)
               ELSE CHOOSE r \in inHot : TRUE
    IN IF ~inWarm /\ id \notin DOMAIN S.cold /\ inHot = {} THEN S
       ELSE LET S2 == [S1 EXCEPT !.objs[ref] =
                        [@ EXCEPT !.value = new_value,
                                  !.last_recalled_turn = turn,
                                  !.embed_text = EmbedText(@.key, new_value)]]
            IN ColdUpsert(WarmUpsert(S2, ref), ref)

StoreUpdate(S, id, new_value, turn) ==
    LET inWarm == WarmGetById(S, id) # NoRef
        S1 == IF inWarm THEN S ELSE ColdGetById(S, id)
        ref == IF inWarm THEN WarmGetById(S, id) ELSE NewRef(S)
    IN IF ~inWarm /\ id \notin DOMAIN S.cold THEN S
       ELSE LET S2 == [S1 EXCEPT !.objs[ref] =
                        [@ EXCEPT !.value = new_value,
                                  !.last_recalled_turn = turn,
                                  !.embed_text = EmbedText(@.key, new_value)]]
            IN ColdUpsert(WarmUpsert(S2, ref), ref)

StoreDelete(S, id) == ColdDelete(WarmRemove(S, id), id)

\* StoreMarkRecalled without the write to the durable tier.
StoreMarkRecalledWarmOnly(S, id, turn) ==
    LET ref == WarmGetById(S, id)
    IN IF ref = NoRef THEN S
       ELSE LET S1 == [S EXCEPT !.objs[ref] =
                        [@ EXCEPT !.heat = Min(HEAT_ONE, @ + HEAT_RECALL_BOOST),
                                  !.last_recalled_turn = turn,
                                  !.status = "active"]]
            IN WarmUpsert(S1, ref)

StoreMarkRecalled(S, id, turn) ==
    LET ref == WarmGetById(S, id)
    IN IF ref = NoRef THEN S
       ELSE LET S1 == [S EXCEPT !.objs[ref] =
                        [@ EXCEPT !.heat = Min(HEAT_ONE, @ + HEAT_RECALL_BOOST),
                                  !.last_recalled_turn = turn,
                                  !.status = "active"]]
            IN ColdUpsert(WarmUpsert(S1, ref), ref)

\* DecayOne with the eviction tested against the decaying bound.
DecayOneEvictsDecaying(R, ref, current_turn, lo) ==
    LET S == R.S
        o == S.objs[ref]
        id == o.memory_id
        h == Max(0, o.heat - HEAT_DECAY_PER_TURN)
        Put(st) == [S EXCEPT !.objs[ref] = [@ EXCEPT !.heat = h, !.status = st]]
    IN IF ~(o.last_recalled_turn < current_turn) THEN R
       ELSE IF HeatLess(h, HEAT_DECAYING_BELOW, id \in lo)
            THEN [S |-> ColdDelete(WarmRemove(Put("evicted"), id), id),
                  evicted |-> Append(R.evicted, id)]
       ELSE [S |-> ColdUpsert(WarmUpsert(Put("active"), ref), ref),
             evicted |-> R.evicted]

\* DecayOne with the durable tier left out of the eviction.
DecayOneKeepsRow(R, ref, current_turn, lo) ==
    LET S == R.S
        o == S.objs[ref]
        id == o.memory_id
        h == Max(0, o.heat - HEAT_DECAY_PER_TURN)
        Put(st) == [S EXCEPT !.objs[ref] = [@ EXCEPT !.heat = h, !.status = st]]
    IN IF ~(o.last_recalled_turn < current_turn) THEN R
       ELSE IF HeatLess(h, HEAT_EVICT_THRESHOLD, id \in lo)
            THEN [S |-> WarmRemove(Put("evicted"), id),
                  evicted |-> Append(R.evicted, id)]
       ELSE IF HeatLess(h, HEAT_DECAYING_BELOW, id \in lo)
            THEN [S |-> ColdUpsert(WarmUpsert(Put("decaying"), ref), ref),
                  evicted |-> R.evicted]
       ELSE [S |-> ColdUpsert(WarmUpsert(Put("active"), ref), ref),
             evicted |-> R.evicted]

\* One pass of the loop body of apply_decay for the object ref; R is
\* [S, evicted]; lo is the set of ids whose heat is rounded low.
DecayOne(R, ref, current_turn, lo) ==
    LET S == R.S
        o == S.objs[ref]
        id == o.memory_id
        h == Max(0, o.heat - HEAT_DECAY_PER_TURN)
        Put(st) == [S EXCEPT !.objs[ref] = [@ EXCEPT !.heat = h, !.status = st]]
    IN IF ~(o.last_recalled_turn < current_turn) THEN R
       ELSE IF HeatLess(h, HEAT_EVICT_THRESHOLD, id \in lo)
            THEN [S |-> ColdDelete(WarmRemove(Put("evicted"), id), id),
                  evicted |-> Append(R.evicted, id)]
       ELSE IF HeatLess(h, HEAT_DECAYING_BELOW, id \in lo)
            THEN [S |-> ColdUpsert(WarmUpsert(Put("decaying"), ref), ref),
                  evicted |-> R.evicted]
       ELSE [S |-> ColdUpsert(WarmUpsert(Put("active"), ref), ref),
             evicted |-> R.evicted]

RECURSIVE DecayLoop(_, _, _, _, _)
DecayLoop(R, L, i, current_turn, lo) ==
    IF i > Len(L) THEN R
    ELSE DecayLoop(DecayOne(R, L[i], current_turn, lo), L, i + 1,
                   current_turn, lo)

\* apply_decay(current_turn): [S |-> the store after, evicted |-> the list]
StoreApplyDecay(S, current_turn, lo) ==
    DecayLoop([S |-> S, evicted |-> <<>>], WarmGetAll(S), 1, current_turn, lo)

StoreGetAllActive(S) ==
    SelectSeq(WarmGetAll(S), LAMBDA r : S.objs[r].status # "evicted")

RECURSIVE LoadRows(_, _, _)
LoadRows(S, order, i) ==
    IF i > Len(order) THEN S
    ELSE LET S1 == ColdGetById(S, order[i])
         IN LoadRows(WarmUpsert(S1, NewRef(S)), order, i + 1)

\* The orders in which a SELECT without ORDER BY may return the rows D.
Orders(D) ==
    {q \in [1..Cardinality(D) -> D] : \A i, j \in DOMAIN q : i # j => q[i] # q[j]}

\* The tiers as MemoryStore.__init__ opens them on what an earlier store S
\* left on disk: the Chroma collection, and the SQLite file unless the path
\* is ":memory:".
Reopen(S) ==
    [db_path |-> S.db_path, objs |-> <<>>, hot |-> <<>>, warm |-> <<>>,
     chroma |-> S.chroma,
     cold |-> IF S.db_path = ":memory:" THEN <<>> ELSE S.cold]

\* MemoryStore(db_path): the tiers opened, then every active row of the
\* durable tier upserted into the searchable tier, in the order of the SELECT.
StoreInit(S, order) == LoadRows(Reopen(S), order, 1)

(*************************** similarity search *****************************)
\* Cosine distances (hundredths) the embedding backend may report.
DistLevels == {0, 50, 120}

\* The words of an embedded text "key: value", lower-cased.
TextWords(text) == {text.key} \cup Range(Split(LowerStrip(text.value)))

\* What collection.query may answer for a query text: the ids of the
\* collection nearest first (rank) with their distances (dist).  The
\* embedding is the backend's; of it the model keeps that a document equal
\* to the query is at distance 0 and that a document sharing no word with
\* the query is far from it.
QueryAnswers(S, text) ==
    {a \in [rank : Orders(DOMAIN S.chroma),
            dist : [DOMAIN S.chroma -> DistLevels]] :
        /\ \A i, j \in DOMAIN a.rank :
               i < j => a.dist[a.rank[i]] <= a.dist[a.rank[j]]
        /\ \A id \in DOMAIN S.chroma :
               /\ S.chroma[id] = text => a.dist[id] = 0
               /\ TextWords(S.chroma[id]) \cap TextWords(text) = {}
                     => a.dist[id] = MaxOf(DistLevels)}

\* adjusted_score = (1 / (1 + d)) * (0.7 + 0.3 * heat), compared without
\* dividing: a hit is [ref, heat, d].
ScoreGE(hit, threshold) ==
    (700 + 3 * hit.heat) * 100 >= threshold * 10 * (100 + hit.d)

ScoreGT(a, b) ==
    (700 + 3 * a.heat) * (100 + b.d) > (700 + 3 * b.heat) * (100 + a.d)

\* hits.sort(key=lambda x: x[1], reverse=True) of WarmTier.search:
\* descending, hits of equal score in their original order.
SortedByScore(hits) ==
    LET pos(i) == 1 + Cardinality({j \in DOMAIN hits :
                        \/ ScoreGT(hits[j], hits[i])
                        \/ (j < i /\ ~ScoreGT(hits[i], hits[j]))})
    IN [p \in DOMAIN hits |-> hits[CHOOSE i \in DOMAIN hits : pos(i) = p]]

\* WarmTier.search with the backend's answer a: the hits, best first.
WarmSearch(S, a, top_k, threshold) ==
    IF S.warm = <<>> THEN <<>>
    ELSE LET k == Min(top_k, Len(S.warm))
             ids == SubSeq(a.rank, 1, Min(k, Len(a.rank)))
             known == SelectSeq(ids, LAMBDA id : WarmGetById(S, id) # NoRef)
             all == [i \in DOMAIN known |->
                       [ref |-> WarmGetById(S, known[i]),
                        heat |-> WarmObj(S, known[i]).heat,
                        d |-> a.dist[known[i]]]]
             hits == SelectSeq(all, LAMBDA h : ScoreGE(h, threshold))
         IN SortedByScore(hits)

StoreSemanticSearch(S, a, top_k, threshold) == WarmSearch(S, a, top_k, threshold)

(****************************** Curator ************************************)
SIMILARITY_FOR_CONFLICT == 55
SIMILARITY_FOR_DUPLICATE == 75

PlantBased == Str(<<"plant-based">>)
NON_CONTRADICTION_PAIRS ==
    {{Vegetarian, Vegan}, {Vegan, PlantBased}, {Vegetarian, PlantBased}}

ValuesAreSame(v1, v2) == LowerStrip(v1) = LowerStrip(v2)

IsContradiction(new_val, old_val) ==
    LET new_lower == LowerStrip(new_val)
        old_lower == LowerStrip(old_val)
        new_nums == Nums(new_lower)
        old_nums == Nums(old_lower)
        new_words == Range(Split(new_lower))
        old_words == Range(Split(old_lower))
        overlap == Cardinality(new_words \cap old_words)
        total == Cardinality(new_words \cup old_words)
    IN IF {new_lower, old_lower} \in NON_CONTRADICTION_PAIRS THEN FALSE
       ELSE IF new_nums # {} /\ old_nums # {} /\ new_nums # old_nums THEN TRUE
       ELSE IF total > 0 /\ 5 * overlap < total THEN TRUE
       ELSE FALSE

\* active_by_key as process builds it: (key, type) -> object, a later
\* record of get_all_active overwriting an earlier one.
BuildTable(S) ==
    LET act == StoreGetAllActive(S)
        kt(i) == <<S.objs[act[i]].key, S.objs[act[i]].type>>
    IN [x \in {kt(i) : i \in DOMAIN act} |->
          act[MaxOf({i \in DOMAIN act : kt(i) = x})]]

Decision(op, cand, target) ==
    [operation |-> op, candidate |-> cand, target_id |-> target]

\* Curator._decide for the candidate object cand, with the backend's answer
\* a to the semantic search.
Decide(S, table, cand, a) ==
    LET c == S.objs[cand]
        kt == <<c.key, c.type>>
    IN IF kt \in DOMAIN table
       THEN LET e == S.objs[table[kt]]
            IN IF ValuesAreSame(c.value, e.value)
               THEN Decision("NOOP", cand, e.memory_id)
               ELSE Decision("UPDATE", cand, e.memory_id)
       ELSE LET similar == StoreSemanticSearch(S, a, 3, SIMILARITY_FOR_CONFLICT)
                dup(h) == /\ ScoreGE(h, SIMILARITY_FOR_DUPLICATE)
                          /\ ValuesAreSame(c.value, S.objs[h.ref].value)
                con(h) == /\ ScoreGE(h, SIMILARITY_FOR_CONFLICT)
                          /\ IsContradiction(c.value, S.objs[h.ref].value)
                stops == {i \in DOMAIN similar : dup(similar[i]) \/ con(similar[i])}
            IN IF stops = {} THEN Decision("ADD", cand, NoId)
               ELSE LET h == similar[MinOf(stops)]
                    IN IF dup(h)
                       THEN Decision("NOOP", cand, S.objs[h.ref].memory_id)
                       ELSE Decision("DELETE", cand, S.objs[h.ref].memory_id)

\* Curator._execute
Execute(S, decision, turn) ==
    LET mem == decision.candidate
    IN CASE decision.operation = "ADD" -> StoreAdd(S, mem)
         [] decision.operation = "UPDATE" ->
              IF decision.target_id # NoId
              THEN StoreUpdate(S, decision.target_id, S.objs[mem].value, turn)
              ELSE StoreAdd(S, mem)
         [] decision.operation = "DELETE" ->
              StoreAdd(IF decision.target_id # NoId
                       THEN StoreDelete(S, decision.target_id) ELSE S, mem)
         [] OTHER -> S

\* The bookkeeping of process after a decision is executed: the table, and
\* the cached object's value (an object of the heap).
TableAfter(S, table, decision) ==
    LET c == S.objs[decision.candidate]
        kt == <<c.key, c.type>>
    IN IF decision.operation = "ADD"
       THEN (kt :> decision.candidate) @@ table
       ELSE table

HeapAfter(S, table, decision) ==
    LET c == S.objs[decision.candidate]
        kt == <<c.key, c.type>>
    IN IF /\ decision.operation = "UPDATE" /\ decision.target_id # NoId
          /\ kt \in DOMAIN table
       THEN [S EXCEPT !.objs[table[kt]] = [@ EXCEPT !.value = c.value]]
       ELSE S

(******************************* Oracle ************************************)
RELEVANCE_THRESHOLD == 50
MAX_MEMORY_TOKENS == 300
TOP_K_SEMANTIC == 8
TOKEN_OVERHEAD == 3
ALWAYS_INJECT_TYPES == <<"constraint", "commitment">>

\* relevance_score(a) > relevance_score(b) at turn_number, for
\* heat * 0.6 + 0.4 / (1 + (turn_number - last_recalled_turn) * 0.01),
\* compared without dividing.
RelevanceGT(a, b, turn) ==
    LET da == 100 + (turn - a.last_recalled_turn)
        db == 100 + (turn - b.last_recalled_turn)
    IN 6 * a.heat * da * db + 40000 * db > 6 * b.heat * da * db + 40000 * da

\* len(fragment.split()) + 3
EstimatedTokens(o) == FragmentWords(o) + TOKEN_OVERHEAD

\* Selected with step 2, the structural search, left out.
SelectedSemanticOnly(S, a) ==
    LET sem == StoreSemanticSearch(S, a, TOP_K_SEMANTIC, RELEVANCE_THRESHOLD)
    IN [refs |-> [i \in DOMAIN sem |-> sem[i].ref], semantic_hits |-> Len(sem)]

\* Steps 1 and 2 of retrieve: the dict selected, in insertion order.
Selected(S, a) ==
    LET sem == StoreSemanticSearch(S, a, TOP_K_SEMANTIC, RELEVANCE_THRESHOLD)
        semRefs == [i \in DOMAIN sem |-> sem[i].ref]
        Struct(ty, have) ==
            SelectSeq(WarmGetByType(S, ty),
                      LAMBDA r : S.objs[r].status # "evicted"
                                 /\ r \notin Range(have))
        s1 == semRefs \o Struct(ALWAYS_INJECT_TYPES[1], semRefs)
    IN [refs |-> s1 \o Struct(ALWAYS_INJECT_TYPES[2], s1),
        semantic_hits |-> Len(semRefs)]

\* Step 3 of retrieve: sorted(selected.values(), key=relevance_score,
\* reverse=True): descending, equal scores in their original order.
SortedByRelevance(S, refs, turn) ==
    LET GT(i, j) == RelevanceGT(S.objs[refs[i]], S.objs[refs[j]], turn)
        pos(i) == 1 + Cardinality({j \in DOMAIN refs :
                        GT(j, i) \/ (j < i /\ ~GT(i, j))})
    IN [p \in DOMAIN refs |-> refs[CHOOSE i \in DOMAIN refs : pos(i) = p]]

\* Step 4 with the loop exited by continue instead of break.
RECURSIVE TokenBudgetSkipping(_, _, _, _, _)
TokenBudgetSkipping(S, sorted, i, final, total) ==
    IF i > Len(sorted) THEN [memories |-> final, total_tokens |-> total]
    ELSE LET est == EstimatedTokens(S.objs[sorted[i]])
         IN IF total + est > MAX_MEMORY_TOKENS
            THEN TokenBudgetSkipping(S, sorted, i + 1, final, total)
            ELSE TokenBudgetSkipping(S, sorted, i + 1, Append(final, sorted[i]),
                                     total + est)

\* Step 4 of retrieve: the loop over sorted_memories.
RECURSIVE TokenBudget(_, _, _, _, _)
TokenBudget(S, sorted, i, final, total) ==
    IF i > Len(sorted) THEN [memories |-> final, total_tokens |-> total]
    ELSE LET est == EstimatedTokens(S.objs[sorted[i]])
         IN IF total + est > MAX_MEMORY_TOKENS
            THEN [memories |-> final, total_tokens |-> total]
            ELSE TokenBudget(S, sorted, i + 1, Append(final, sorted[i]),
                             total + est)

\* Step 5 with the last accepted record left unmarked.
RECURSIVE MarkAllButLast(_, _, _, _)
MarkAllButLast(S, refs, i, turn) ==
    IF i >= Len(refs) THEN S
    ELSE MarkAllButLast(StoreMarkRecalled(S, S.objs[refs[i]].memory_id, turn),
                        refs, i + 1, turn)

RECURSIVE MarkAll(_, _, _, _)
MarkAll(S, refs, i, turn) ==
    IF i > Len(refs) THEN S
    ELSE MarkAll(StoreMarkRecalled(S, S.objs[refs[i]].memory_id, turn),
                 refs, i + 1, turn)

PRIORITY_ORDER == <<"constraint", "commitment", "preference", "fact", "entity">>

RECURSIVE BlockLines(_, _, _)
BlockLines(S, memories, t) ==
    IF t > Len(PRIORITY_ORDER) THEN <<>>
    ELSE LET grp == SelectSeq(memories,
                       LAMBDA r : S.objs[r].type = PRIORITY_ORDER[t])
             items == [i \in DOMAIN grp |->
                         [line |-> "item", key |-> S.objs[grp[i]].key,
                          value |-> S.objs[grp[i]].value]]
         IN (IF grp = <<>> THEN <<>>
             ELSE <<[line |-> "header", type |-> PRIORITY_ORDER[t]]>> \o items)
            \o BlockLines(S, memories, t + 1)

\* The block with one header and one item per record, in the order of the
\* records.
BuildPromptBlockUngrouped(S, memories) ==
    IF memories = <<>> THEN <<>>
    ELSE <<[line |-> "<memory_context>"]>>
         \o [i \in 1..(2 * Len(memories)) |->
               LET o == S.objs[memories[(i + 1) \div 2]]
               IN IF i % 2 = 1 THEN [line |-> "header", type |-> o.type]
                  ELSE [line |-> "item", key |-> o.key, value |-> o.value]]
         \o <<[line |-> "</memory_context>"]>>

\* Oracle._build_prompt_block: the lines of the block ("" is <<>>).
BuildPromptBlock(S, memories) ==
    IF memories = <<>> THEN <<>>
    ELSE <<[line |-> "<memory_context>"]>> \o BlockLines(S, memories, 1)
         \o <<[line |-> "</memory_context>"]>>

\* Oracle.build_system_prompt: the base text, or the base text, the block
\* and the closing instructions.
BuildSystemPrompt(base_system, prompt_block) ==
    IF prompt_block = <<>> THEN base_system
    ELSE <<base_system, prompt_block, "Use the memory context above">>

\* Oracle.retrieve(query, turn_number), a the backend's answer to the query:
\* the store after the recalls and the RetrievalResult (memories as ids).
Retrieve(S, a, turn) ==
    LET sel == Selected(S, a)
        sorted == SortedByRelevance(S, sel.refs, turn)
        cut == TokenBudget(S, sorted, 1, <<>>, 0)
        ids(q) == [i \in DOMAIN q |-> S.objs[q[i]].memory_id]
    IN [S |-> MarkAll(S, cut.memories, 1, turn),
        result |-> [memories |-> ids(cut.memories),
                    total_tokens |-> cut.total_tokens,
                    semantic_hits |-> sel.semantic_hits,
                    structural_hits |-> Len(sel.refs) - sel.semantic_hits,
                    prompt_block |-> BuildPromptBlock(S, cut.memories),
                    ranked |-> ids(sorted)]]

(************************ inputs of the calls *******************************)

\* The records a caller adds: [type, key, value, heat] (confidence = heat,
\* as in inject_memory).
AddPool ==
    { [type |-> "constraint", key |-> "diet", value |-> Vegetarian, heat |-> 100],
      [type |-> "fact", key |-> "name", value |-> Str(<<"Arjun">>), heat |-> 12],
      [type |-> "commitment", key |-> "call_time", value |-> CallAfter5, heat |-> 34] }

UpdateValues == {Vegan, CallAfter8}

NoCall == [op |-> "none", id |-> NoId, turn |-> 0, ret |-> <<>>]
NoBatch == [active |-> FALSE]

(******************* MnemosyneEngine: construction **************************)
HISTORY_WINDOW == 20
CONFIDENCE_THRESHOLD == 65
NoTask == 0
TaskIds == 1..MaxTurns
Callers == 1..MaxCallers

NoMessage == [text |-> Str(<<>>), items |-> <<>>]

\* TurnResult(turn_number=turn, user_message=user_message): the defaults.
TurnResult(turn, m) ==
    [turn_number |-> turn, user_message |-> m.text, response |-> <<>>,
     memories_used |-> <<>>, memories_added |-> <<>>, evicted |-> <<>>,
     prompt_block |-> <<>>, sentinel_extracted |-> 0, curator_ops |-> <<>>]

\* A thread not yet created.
NoThread ==
    [pc |-> "none", turn |-> 0, message |-> NoMessage, cands |-> <<>>,
     i |-> 0, table |-> <<>>, decisions |-> <<>>, extracted |-> 0,
     added |-> <<>>, op_counts |-> <<>>, evicted |-> <<>>,
     async_output |-> <<>>]

\* A thread that is not inside chat().
NotInChat ==
    [pc |-> "idle", turn |-> 0, message |-> NoMessage, wait |-> "none",
     handed |-> <<>>, result |-> TurnResult(0, NoMessage)]

\* MnemosyneEngine.__init__, the store apart.
EngineInit ==
    /\ turn_number = 0
    /\ history = <<>>
    /\ lock = NoTask
    /\ main = [c \in Callers |-> NotInChat]
    /\ tasks = [t \in TaskIds |-> NoThread]
    /\ results = <<>>

(******************* the store driven through its API ***********************)
Init ==
    /\ store = EmptyStore("mnemosyne_memories.db")
    /\ nextId = 1
    /\ last = NoCall
    /\ batch = NoBatch
    /\ calls = 0
    /\ EngineInit

Called(op, id, turn, ret) ==
    /\ calls < MaxCalls
    /\ calls' = calls + 1
    /\ last' = [op |-> op, id |-> id, turn |-> turn, ret |-> ret]
    /\ UNCHANGED engineVars

\* store.add(MemoryObject(...)) with a fresh memory_id
Add ==
    \E a \in AddPool, t \in Turns :
        /\ nextId <= MaxIds
        /\ LET o == MemoryObject(nextId, a.type, a.key, a.value, t, t,
                                 a.heat, a.heat)
           IN store' = StoreAdd(Alloc(store, o), NewRef(store))
        /\ nextId' = nextId + 1
        /\ Called("add", nextId, t, <<>>)
        /\ UNCHANGED batch

Update ==
    \E id \in Ids, v \in UpdateValues, t \in Turns :
        /\ store' = StoreUpdate(store, id, v, t)
        /\ Called("update", id, t, <<v>>)
        /\ UNCHANGED <<nextId, batch>>

Delete ==
    \E id \in Ids :
        /\ store' = StoreDelete(store, id)
        /\ Called("delete", id, 0, <<>>)
        /\ UNCHANGED <<nextId, batch>>

MarkRecalled ==
    \E id \in Ids, t \in Turns :
        /\ store' = StoreMarkRecalled(store, id, t)
        /\ Called("mark_recalled", id, t, <<>>)
        /\ UNCHANGED <<nextId, batch>>

\* The records whose decayed heat lands on a comparison threshold of
\* apply_decay: only there can the rounding of the float decide the branch.
AtThreshold(S, current_turn) ==
    {id \in WarmIds(S) :
        /\ WarmObj(S, id).last_recalled_turn < current_turn
        /\ Max(0, WarmObj(S, id).heat - HEAT_DECAY_PER_TURN)
              \in {HEAT_EVICT_THRESHOLD, HEAT_DECAYING_BELOW}}

ApplyDecay ==
    \E t \in Turns : \E lo \in SUBSET AtThreshold(store, t) :
        \E R \in {StoreApplyDecay(store, t, lo)} :
           /\ store' = R.S
           /\ Called("apply_decay", NoId, t, R.evicted)
           /\ UNCHANGED <<nextId, batch>>

\* a new MemoryStore on the same db_path (process restart)
Restart ==
    \E order \in Orders(ColdGetAllActive(Reopen(store))) :
        /\ store' = StoreInit(store, order)
        /\ Called("init", NoId, 0, <<>>)
        /\ UNCHANGED <<nextId, batch>>

Next == Add \/ Update \/ Delete \/ MarkRecalled \/ ApplyDecay \/ Restart

Spec == Init /\ [][Next]_vars

(**************** add called again with the same record ********************)
\* The records the caller adds, in the order of their ids.
ReAddPool ==
    <<[type |-> "fact", key |-> "name", value |-> Str(<<"Arjun">>), heat |-> 100],
      [type |-> "constraint", key |-> "diet", value |-> Vegetarian, heat |-> 100],
      [type |-> "commitment", key |-> "call_time", value |-> CallAfter5, heat |-> 100],
      [type |-> "preference", key |-> "tone", value |-> Str(<<"brief">>), heat |-> 100]>>

\* store.add(record) with a record not added before
AddFirst ==
    /\ calls < MaxAdds
    /\ nextId <= Min(MaxIds, Len(ReAddPool))
    /\ \E o \in {MemoryObject(nextId, ReAddPool[nextId].type,
                              ReAddPool[nextId].key, ReAddPool[nextId].value,
                              1, 1, ReAddPool[nextId].heat,
                              ReAddPool[nextId].heat)} :
          store' = StoreAdd(Alloc(store, o), NewRef(store))
    /\ nextId' = nextId + 1
    /\ calls' = calls + 1
    /\ last' = [op |-> "add", id |-> nextId, turn |-> 1, ret |-> <<>>]
    /\ UNCHANGED <<batch, engineVars>>

\* store.add(record) once more with the record of the call before
AddAgain ==
    /\ calls < MaxAdds
    /\ last.op \in {"add", "add_again"}
    /\ store' = StoreAdd(store, WarmGetById(store, last.id))
    /\ calls' = calls + 1
    /\ last' = [last EXCEPT !.op = "add_again"]
    /\ UNCHANGED <<nextId, batch, engineVars>>

NextReAdd == AddFirst \/ AddAgain

SpecReAdd == Init /\ [][NextReAdd]_vars

(********************* the Curator driven by batches ***********************)
\* What Sentinel.extract may hand to the Curator (filtered_in): [type, key,
\* value, confidence], confidence at or above the threshold.
CandPool ==
    { [type |-> "constraint", key |-> "diet", value |-> Vegetarian, conf |-> 100],
      [type |-> "constraint", key |-> "diet", value |-> Padded(Str(<<"Vegan">>)), conf |-> 90],
      [type |-> "constraint", key |-> "call_time", value |-> CallAfter5, conf |-> 70],
      [type |-> "constraint", key |-> "contact_time", value |-> CallAfter8, conf |-> 100],
      [type |-> "constraint", key |-> "contact_time", value |-> CallAfter8Sharp, conf |-> 70],
      [type |-> "constraint", key |-> "contact_time", value |-> Wide(CallAfter8), conf |-> 100] }

Batches == UNION {[1..n -> CandPool] : n \in 0..MaxBatch}

\* The MemoryObject Sentinel.extract builds for an extracted item.
SentinelObject(id, c, turn) ==
    MemoryObject(id, c.type, c.key, c.value, turn, turn,
                 Min(HEAT_ONE, c.conf), c.conf)

RECURSIVE AllocAll(_, _, _, _, _)
AllocAll(S, cs, i, id, turn) ==
    IF i > Len(cs) THEN S
    ELSE AllocAll(Alloc(S, SentinelObject(id, cs[i], turn)), cs, i + 1,
                  id + 1, turn)

\* process(candidates, turn) up to the loop: the table is built.
ProcessBegin ==
    \E cs \in Batches, t \in Turns :
        /\ ~batch.active
        /\ calls < MaxCalls
        /\ nextId + Len(cs) - 1 <= MaxIds
        /\ store' = AllocAll(store, cs, 1, nextId, t)
        /\ nextId' = nextId + Len(cs)
        /\ batch' = [active |-> TRUE,
                     cands |-> [i \in 1..Len(cs) |->
                                  Cardinality(DOMAIN store.objs) + i],
                     i |-> 1, table |-> BuildTable(store),
                     decisions |-> <<>>, turn |-> t]
        /\ UNCHANGED <<last, calls>>
        /\ UNCHANGED engineVars

\* One pass of the loop of process: decide, execute, refresh the table.
ProcessStep ==
    /\ batch.active
    /\ batch.i <= Len(batch.cands)
    /\ LET cand == batch.cands[batch.i]
       IN \E a \in QueryAnswers(store, store.objs[cand].embed_text) :
            LET d == Decide(store, batch.table, cand, a)
                S1 == Execute(store, d, batch.turn)
            IN /\ store' = HeapAfter(S1, batch.table, d)
               /\ batch' = [batch EXCEPT
                              !.i = @ + 1,
                              !.table = TableAfter(S1, batch.table, d),
                              !.decisions = Append(@, d)]
    /\ UNCHANGED <<nextId, last, calls>>
    /\ UNCHANGED engineVars

\* ProcessEnd with the NOOP decisions left out of the returned list.
ProcessEndDropsNoop ==
    /\ batch.active
    /\ batch.i > Len(batch.cands)
    /\ batch' = NoBatch
    /\ Called("process", NoId, batch.turn,
              SelectSeq(batch.decisions, LAMBDA d : d.operation # "NOOP"))
    /\ UNCHANGED <<store, nextId>>

\* process returns its decisions.
ProcessEnd ==
    /\ batch.active
    /\ batch.i > Len(batch.cands)
    /\ batch' = NoBatch
    /\ Called("process", NoId, batch.turn, batch.decisions)
    /\ UNCHANGED <<store, nextId>>

\* Curator.run_decay(turn)
RunDecay ==
    /\ ~batch.active
    /\ ApplyDecay

NextCurator == ProcessBegin \/ ProcessStep \/ ProcessEnd \/ RunDecay

SpecCurator == Init /\ [][NextCurator]_vars

(****************** the Oracle on a seeded store ***************************)
LongText == Str([i \in 1..146 |-> "word"])

\* What the engine is seeded with through inject_memory: [type, key, value,
\* confidence] (heat = confidence, turn 0).
SeedPool ==
    { [type |-> "constraint", key |-> "policy", value |-> LongText, conf |-> 99],
      [type |-> "commitment", key |-> "call_time", value |-> CallAfter5, conf |-> 50],
      [type |-> "fact", key |-> "name", value |-> Str(<<"Arjun">>), conf |-> 99],
      [type |-> "fact", key |-> "city", value |-> Str(<<"Pune">>), conf |-> 80] }

\* MnemosyneEngine.inject_memory
InjectMemory(S, id, c, turn) ==
    StoreAdd(Alloc(S, MemoryObject(id, c.type, c.key, c.value, turn,
                                   turn, c.conf, c.conf)),
             NewRef(S))

RECURSIVE Seeded(_, _, _)
Seeded(S, cs, i) ==
    IF i > Len(cs) THEN S ELSE Seeded(InjectMemory(S, i, cs[i], 0), cs, i + 1)

InitOracle ==
    /\ \E cs \in UNION {[1..n -> SeedPool] : n \in 0..MaxIds} :
          /\ store = Seeded(EmptyStore(":memory:"), cs, 1)
          /\ nextId = Len(cs) + 1
    /\ last = NoCall
    /\ batch = NoBatch
    /\ calls = 0
    /\ EngineInit

\* oracle.retrieve(query, turn_number) for some user message
OracleRetrieve ==
    /\ calls < MaxOracleCalls
    /\ \E t \in Turns, a \in [rank : Orders(DOMAIN store.chroma),
                              dist : [DOMAIN store.chroma -> DistLevels]] :
           /\ \A i, j \in DOMAIN a.rank :
                  i < j => a.dist[a.rank[i]] <= a.dist[a.rank[j]]
           /\ \E R \in {Retrieve(store, a, t)} :
                 /\ store' = R.S
                 /\ Called("retrieve", NoId, t, R.result)
           /\ UNCHANGED <<nextId, batch>>

\* curator.run_decay(turn) between retrievals
OracleDecay == calls < MaxOracleCalls /\ ApplyDecay

NextOracle == OracleRetrieve \/ OracleDecay

SpecOracle == InitOracle /\ [][NextOracle]_vars

(********************* MnemosyneEngine.chat ********************************)
\* The user messages of the turns, each with the items the extraction
\* model answers for it: [type, key, value, confidence].
MessagePool ==
    { [text |-> Str(<<"i", "am", "vegetarian">>),
       items |-> <<[type |-> "constraint", key |-> "diet",
                    value |-> Vegetarian, conf |-> 100]>>],
      [text |-> Str(<<"now", "vegan">>),
       items |-> <<[type |-> "constraint", key |-> "diet",
                    value |-> Vegan, conf |-> 90],
                   [type |-> "fact", key |-> "name",
                    value |-> Str(<<"Arjun">>), conf |-> 50]>>] }

\* The query the retrieval embeds: the user message.
QueryText(m) == [key |-> "", value |-> m.text]

\* What Sentinel.extract gets out of generate_content: the items, or
\* nothing when the call or the parse raises.
SentinelAnswers(m) == {m.items, <<>>}

\* Sentinel.extract: filtered_in
FilteredIn(items, threshold) ==
    SelectSeq(items, LAMBDA c : c.conf >= threshold)

\* _call_llm without llm_fn
CallLlm(turn) == <<"LLM stub", turn>>

\* q[-n:]
LastN(q, n) == IF Len(q) <= n THEN q ELSE SubSeq(q, Len(q) - n + 1, Len(q))

\* dict.get(key, default)
Get(d, key, default) == IF key \in DOMAIN d THEN d[key] ELSE default

\* thread.is_alive()
IsAlive(t) == tasks[t].pc \notin {"none", "done"}

\* ChatRetrieve waiting until no thread holds the lock.
ChatRetrieveLocked(c) ==
    /\ main[c].pc = "idle"
    /\ lock = NoTask
    /\ turn_number + 1 \in DOMAIN tasks
    /\ \E m \in MessagePool : \E a \in QueryAnswers(store, QueryText(m)) :
         \E turn \in {turn_number + 1} : \E R \in {Retrieve(store, a, turn)} :
            /\ turn_number' = turn
            /\ store' = R.S
            /\ main' = [main EXCEPT ![c] =
                         [pc |-> "llm", turn |-> turn, message |-> m,
                          wait |-> "none", handed |-> <<>>,
                          result |-> [TurnResult(turn, m) EXCEPT
                             !.memories_used = R.result.memories,
                             !.prompt_block = R.result.prompt_block]]]
    /\ UNCHANGED <<nextId, last, batch, calls, history, lock, tasks, results>>

\* chat(): turn_number += 1, the TurnResult, oracle.retrieve
ChatRetrieve(c) ==
    /\ main[c].pc = "idle"
    /\ turn_number + 1 \in DOMAIN tasks
    /\ \E m \in MessagePool : \E a \in QueryAnswers(store, QueryText(m)) :
         \E turn \in {turn_number + 1} : \E R \in {Retrieve(store, a, turn)} :
            /\ turn_number' = turn
            /\ store' = R.S
            /\ main' = [main EXCEPT ![c] =
                         [pc |-> "llm", turn |-> turn, message |-> m,
                          wait |-> "none", handed |-> <<>>,
                          result |-> [TurnResult(turn, m) EXCEPT
                             !.memories_used = R.result.memories,
                             !.prompt_block = R.result.prompt_block]]]
    /\ UNCHANGED <<nextId, last, batch, calls, history, lock, tasks, results>>

\* ChatRespond with the user message appended before the generation call.
ChatRespondAfterAppend(c) ==
    /\ main[c].pc = "llm"
    /\ history' = Append(history, [role |-> "user",
                                   content |-> main[c].message.text])
    /\ main' = [main EXCEPT ![c].pc = "append_assistant",
                            ![c].handed = history',
                            ![c].result.response = CallLlm(turn_number)]
    /\ UNCHANGED <<storeVars, turn_number, lock, tasks, results>>

\* chat(): response = self._call_llm(system_prompt, user_message); handed is
\* the history the call passes to llm_fn.
ChatRespond(c) ==
    /\ main[c].pc = "llm"
    /\ main' = [main EXCEPT ![c].pc = "append_user",
                            ![c].handed = history,
                            ![c].result.response = CallLlm(turn_number)]
    /\ UNCHANGED <<storeVars, turn_number, history, lock, tasks, results>>

\* self.history.append({"role": "user", "content": user_message})
ChatAppendUser(c) ==
    /\ main[c].pc = "append_user"
    /\ history' = Append(history, [role |-> "user",
                                   content |-> main[c].message.text])
    /\ main' = [main EXCEPT ![c].pc = "append_assistant"]
    /\ UNCHANGED <<storeVars, turn_number, lock, tasks, results>>

\* self.history.append({"role": "assistant", "content": response})
ChatAppendAssistant(c) ==
    /\ main[c].pc = "append_assistant"
    /\ history' = Append(history, [role |-> "assistant",
                                   content |-> main[c].result.response])
    /\ main' = [main EXCEPT ![c].pc = "truncate"]
    /\ UNCHANGED <<storeVars, turn_number, lock, tasks, results>>

\* ChatTruncate keeping the oldest entries of the window.
ChatTruncateKeepsOldest(c) ==
    /\ main[c].pc = "truncate"
    /\ history' = SubSeq(history, 1, Min(Len(history), HISTORY_WINDOW))
    /\ tasks' = [tasks EXCEPT ![main[c].turn] =
                   [NoThread EXCEPT !.pc = "acquire", !.turn = main[c].turn,
                                    !.message = main[c].message]]
    /\ main' = [main EXCEPT ![c].pc = "join"]
    /\ UNCHANGED <<storeVars, turn_number, lock, results>>

\* self.history = self.history[-HISTORY_WINDOW:], and thread.start(): the
\* statements between the two touch nothing shared.
ChatTruncate(c) ==
    /\ main[c].pc = "truncate"
    /\ history' = LastN(history, HISTORY_WINDOW)
    /\ tasks' = [tasks EXCEPT ![main[c].turn] =
                   [NoThread EXCEPT !.pc = "acquire", !.turn = main[c].turn,
                                    !.message = main[c].message]]
    /\ main' = [main EXCEPT ![c].pc = "join"]
    /\ UNCHANGED <<storeVars, turn_number, lock, results>>

\* thread.join(timeout=5.0) returns because the thread has ended.
JoinReturns(c) ==
    /\ main[c].pc = "join"
    /\ ~IsAlive(main[c].turn)
    /\ main' = [main EXCEPT ![c].pc = "check", ![c].wait = "finished"]
    /\ UNCHANGED <<storeVars, turn_number, history, lock, tasks, results>>

\* thread.join(timeout=5.0) returns because the 5 seconds are over.
JoinExpires(c) ==
    /\ main[c].pc = "join"
    /\ IsAlive(main[c].turn)
    /\ main' = [main EXCEPT ![c].pc = "check", ![c].wait = "expired"]
    /\ UNCHANGED <<storeVars, turn_number, history, lock, tasks, results>>

\* ChatReturn with the results copied whether or not the thread has ended.
ChatReturnCopiesAlways(c) ==
    /\ main[c].pc = "check"
    /\ LET out == tasks[main[c].turn].async_output
           res == [main[c].result EXCEPT
                     !.sentinel_extracted = Get(out, "sentinel_extracted", 0),
                     !.memories_added = Get(out, "memories_added", <<>>),
                     !.curator_ops = Get(out, "curator_ops", <<>>),
                     !.evicted = Get(out, "evicted", <<>>)]
       IN results' = Append(results,
              [result |-> res, wait |-> main[c].wait,
               alive |-> IsAlive(main[c].turn)])
    /\ main' = [main EXCEPT ![c].pc = "idle"]
    /\ UNCHANGED <<storeVars, turn_number, history, lock, tasks>>

\* chat(): if not thread.is_alive(): copy async_output; return result.
\* results records, with the TurnResult, how the join ended (wait) and what
\* is_alive() answered (alive).
ChatReturn(c) ==
    /\ main[c].pc = "check"
    /\ LET out == tasks[main[c].turn].async_output
           res == IF ~IsAlive(main[c].turn)
                  THEN [main[c].result EXCEPT
                     !.sentinel_extracted = Get(out, "sentinel_extracted", 0),
                     !.memories_added = Get(out, "memories_added", <<>>),
                     !.curator_ops = Get(out, "curator_ops", <<>>),
                     !.evicted = Get(out, "evicted", <<>>)]
                  ELSE main[c].result
       IN results' = Append(results,
              [result |-> res, wait |-> main[c].wait,
               alive |-> IsAlive(main[c].turn)])
    /\ main' = [main EXCEPT ![c].pc = "idle"]
    /\ UNCHANGED <<storeVars, turn_number, history, lock, tasks>>

\* The steps of chat() called by thread c.
Chat(c) ==
    \/ ChatRetrieve(c) \/ ChatRespond(c) \/ ChatAppendUser(c)
    \/ ChatAppendAssistant(c) \/ ChatTruncate(c)
    \/ JoinReturns(c) \/ JoinExpires(c) \/ ChatReturn(c)

(******************* async_memory_ops, the thread of turn t *****************)
\* TaskAcquire without waiting for the lock.
TaskAcquireUnguarded(t) ==
    /\ tasks[t].pc = "acquire"
    /\ lock' = t
    /\ tasks' = [tasks EXCEPT ![t].pc = "extract"]
    /\ UNCHANGED <<storeVars, turn_number, history, main, results>>

\* with self._lock: entered
TaskAcquire(t) ==
    /\ tasks[t].pc = "acquire"
    /\ lock = NoTask
    /\ lock' = t
    /\ tasks' = [tasks EXCEPT ![t].pc = "extract"]
    /\ UNCHANGED <<storeVars, turn_number, history, main, results>>

\* TaskExtract with the exception of a failed extraction ending the thread.
TaskExtractFatal(t) ==
    /\ tasks[t].pc = "extract"
    /\ \E items \in SentinelAnswers(tasks[t].message) :
       \E fin \in {FilteredIn(items, CONFIDENCE_THRESHOLD)} :
            /\ store' = AllocAll(store, fin, 1, nextId, tasks[t].turn)
            /\ nextId' = nextId + Len(fin)
            /\ tasks' = [tasks EXCEPT
                 ![t].pc = IF items = <<>> THEN "done" ELSE "process",
                 ![t].extracted = Len(fin),
                 ![t].cands = [i \in 1..Len(fin) |->
                                 Cardinality(DOMAIN store.objs) + i]]
            /\ lock' = IF items = <<>> THEN NoTask ELSE lock
    /\ UNCHANGED <<last, batch, calls, turn_number, history, main, results>>

\* extraction = self.sentinel.extract(captured_message, captured_turn)
TaskExtract(t) ==
    /\ tasks[t].pc = "extract"
    /\ \E items \in SentinelAnswers(tasks[t].message) :
       \E fin \in {FilteredIn(items, CONFIDENCE_THRESHOLD)} :
            /\ store' = AllocAll(store, fin, 1, nextId, tasks[t].turn)
            /\ nextId' = nextId + Len(fin)
            /\ tasks' = [tasks EXCEPT
                 ![t].pc = "process",
                 ![t].extracted = Len(fin),
                 ![t].cands = [i \in 1..Len(fin) |->
                                 Cardinality(DOMAIN store.objs) + i]]
    /\ UNCHANGED <<last, batch, calls, engineVarsButTasks>>

\* curator.process up to its loop: the table is built.
TaskProcessBegin(t) ==
    /\ tasks[t].pc = "process"
    /\ tasks' = [tasks EXCEPT ![t].pc = "loop", ![t].i = 1,
                              ![t].table = BuildTable(store)]
    /\ UNCHANGED <<storeVars, engineVarsButTasks>>

\* One pass of the loop of curator.process.
TaskProcessStep(t) ==
    /\ tasks[t].pc = "loop"
    /\ tasks[t].i <= Len(tasks[t].cands)
    /\ LET cand == tasks[t].cands[tasks[t].i]
       IN \E a \in QueryAnswers(store, store.objs[cand].embed_text) :
          \E d \in {Decide(store, tasks[t].table, cand, a)} :
          \E S1 \in {Execute(store, d, tasks[t].turn)} :
               /\ store' = HeapAfter(S1, tasks[t].table, d)
               /\ tasks' = [tasks EXCEPT
                    ![t].i = @ + 1,
                    ![t].table = TableAfter(S1, tasks[t].table, d),
                    ![t].decisions = Append(@, d)]
    /\ UNCHANGED <<nextId, last, batch, calls, engineVarsButTasks>>

\* async_memory_ops: op_counts = {op.value: 0 for op in CuratorOp}, then
\* op_counts[d.operation.value] += 1 for each decision.
OpCounts(decisions) ==
    [op \in CuratorOp |->
        Cardinality({i \in DOMAIN decisions : decisions[i].operation = op})]

\* process has returned: op_counts and added are computed.
TaskProcessEnd(t) ==
    /\ tasks[t].pc = "loop"
    /\ tasks[t].i > Len(tasks[t].cands)
    /\ LET ds == tasks[t].decisions
           kept == SelectSeq(ds, LAMBDA d : d.operation \in {"ADD", "UPDATE"})
       IN tasks' = [tasks EXCEPT
            ![t].pc = "decay",
            ![t].op_counts = [op \in CuratorOp |->
                Cardinality({i \in DOMAIN ds : ds[i].operation = op})],
            ![t].added = [i \in DOMAIN kept |-> kept[i].candidate]]
    /\ UNCHANGED <<storeVars, engineVarsButTasks>>

\* evicted = self.curator.run_decay(captured_turn)
TaskDecay(t) ==
    /\ tasks[t].pc = "decay"
    /\ \E lo \in SUBSET AtThreshold(store, tasks[t].turn) :
       \E R \in {StoreApplyDecay(store, tasks[t].turn, lo)} :
            /\ store' = R.S
            /\ tasks' = [tasks EXCEPT ![t].pc = "write",
                                      ![t].evicted = R.evicted]
    /\ UNCHANGED <<nextId, last, batch, calls, engineVarsButTasks>>

\* TaskFinish leaving the with block without releasing the lock.
TaskFinishKeepsLock(t) ==
    /\ tasks[t].pc = "write"
    /\ tasks' = [tasks EXCEPT
         ![t].pc = "exit",
         ![t].async_output =
             [sentinel_extracted |-> tasks[t].extracted,
              memories_added |-> tasks[t].added,
              curator_ops |-> tasks[t].op_counts,
              evicted |-> tasks[t].evicted]]
    /\ UNCHANGED <<storeVars, turn_number, history, lock, main, results>>

\* TaskFinish with only the first two of the four writes to async_output.
TaskFinishWritesHalf(t) ==
    /\ tasks[t].pc = "write"
    /\ tasks' = [tasks EXCEPT
         ![t].pc = "exit",
         ![t].async_output =
             [sentinel_extracted |-> tasks[t].extracted,
              memories_added |-> tasks[t].added]]
    /\ lock' = NoTask
    /\ UNCHANGED <<storeVars, turn_number, history, main, results>>

\* The four writes to async_output, and the with block left: lock released.
TaskFinish(t) ==
    /\ tasks[t].pc = "write"
    /\ tasks' = [tasks EXCEPT
         ![t].pc = "exit",
         ![t].async_output =
             [sentinel_extracted |-> tasks[t].extracted,
              memories_added |-> tasks[t].added,
              curator_ops |-> tasks[t].op_counts,
              evicted |-> tasks[t].evicted]]
    /\ lock' = NoTask
    /\ UNCHANGED <<storeVars, turn_number, history, main, results>>

\* async_memory_ops returns: the thread has ended.
TaskExit(t) ==
    /\ tasks[t].pc = "exit"
    /\ tasks' = [tasks EXCEPT ![t].pc = "done"]
    /\ UNCHANGED <<storeVars, engineVarsButTasks>>

\* The steps of the thread of turn t.
Task(t) ==
    \/ TaskAcquire(t) \/ TaskExtract(t) \/ TaskProcessBegin(t)
    \/ TaskProcessStep(t) \/ TaskProcessEnd(t) \/ TaskDecay(t)
    \/ TaskFinish(t) \/ TaskExit(t)

InitEngine ==
    /\ store = EmptyStore(":memory:")
    /\ nextId = 1
    /\ last = NoCall
    /\ batch = NoBatch
    /\ calls = 0
    /\ EngineInit

\* One thread calls chat(), turn after turn.
NextEngine == Chat(1) \/ \E t \in TaskIds : Task(t)

SpecEngine == InitEngine /\ [][NextEngine]_vars

\* The scheduler runs every thread that can take a step; the caller of
\* chat() may stop at any point.
SpecEngineFair == SpecEngine /\ \A t \in TaskIds : WF_vars(Task(t))

\* The same engine, for what its steps can do next (ENABLED) rather than
\* what its states are.
SpecRetrieval == InitEngine /\ [][NextEngine]_vars

(****************** the history window over many turns *********************)
\* The TurnResult of an earlier turn t with message m, on which nothing was
\* retrieved (the store was empty) and the extraction call raised.
PastResult(t, m) ==
    [result |-> [TurnResult(t, m) EXCEPT
                   !.response = CallLlm(t),
                   !.prompt_block = BuildPromptBlock(EmptyStore(":memory:"), <<>>),
                   !.curator_ops = [op \in CuratorOp |-> 0]],
     wait |-> "finished", alive |-> FALSE]

\* The entries the turns of rs appended to the history, oldest first.
RECURSIVE Appended(_)
Appended(rs) ==
    IF rs = <<>> THEN <<>>
    ELSE Appended(SubSeq(rs, 1, Len(rs) - 1)) \o
         <<[role |-> "user", content |-> rs[Len(rs)].result.user_message],
           [role |-> "assistant", content |-> rs[Len(rs)].result.response]>>

\* The turns that may follow the PastTurns earlier ones.
LaterTurns == (PastTurns + 1)..(PastTurns + MaxTurns)

\* The engine after PastTurns turns of one caller on which nothing was
\* stored: the history holds their entries, their threads have ended.
InitHistory ==
    /\ store = EmptyStore(":memory:")
    /\ nextId = 1
    /\ last = NoCall
    /\ batch = NoBatch
    /\ calls = 0
    /\ turn_number = PastTurns
    /\ \E m \in MessagePool :
          /\ results = [t \in 1..PastTurns |-> PastResult(t, m)]
          /\ history = LastN(Appended(results), HISTORY_WINDOW)
    /\ lock = NoTask
    /\ main = [c \in Callers |-> NotInChat]
    /\ tasks = [t \in LaterTurns |-> NoThread]

NextHistory == Chat(1) \/ \E t \in LaterTurns : Task(t)

SpecHistory == InitHistory /\ [][NextHistory]_vars

(****************** chat() called from several threads *********************)
\* Each read-modify-write of a caller (turn_number += 1, append, the slice)
\* is taken as one step: the interleavings of the model are among those of
\* the code.
NextCallers == (\E c \in Callers : Chat(c)) \/ \E t \in TaskIds : Task(t)

SpecCallers == InitEngine /\ [][NextCallers]_vars

(************** chat() with llm_fn = gemini_wrapper (src/main.py) **********)
(******** chat() with the statements of the retrieval interleaved **********)
\* oracle.retrieve runs in the caller's thread outside self._lock, so the
\* background thread of an earlier turn may run between any two of its
\* statements.  Here the retrieval is taken in four steps: steps 1 to 4
\* (reads only), then for each accepted record the lookup of mark_recalled
\* and its writes, then the prompt block.

\* What the session holds before its first turn: one record injected with
\* confidence 0.10 (heat 0.10, turn 0).
RaceSeeds ==
    << [type |-> "preference", key |-> "food", value |-> Vegan, conf |-> 10] >>

\* mark_recalled after mem = self.warm.get_by_id(memory_id) has found the
\* object ref: the three assignments and the two upserts.
MarkRecalledWrite(S, ref, turn) ==
    LET S1 == [S EXCEPT !.objs[ref] =
                 [@ EXCEPT !.heat = Min(HEAT_ONE, @ + HEAT_RECALL_BOOST),
                           !.last_recalled_turn = turn,
                           !.status = "active"]]
    IN ColdUpsert(WarmUpsert(S1, ref), ref)

\* chat(): turn_number += 1, the TurnResult, and steps 1 to 4 of retrieve:
\* pending are the accepted objects not yet marked, mem the object a
\* mark_recalled has looked up.
ChatSelect(c) ==
    /\ main[c].pc = "idle"
    /\ turn_number + 1 \in DOMAIN tasks
    /\ \E m \in MessagePool : \E a \in QueryAnswers(store, QueryText(m)) :
         \E turn \in {turn_number + 1} :
         \E sorted \in {SortedByRelevance(store, Selected(store, a).refs, turn)} :
         \E cut \in {TokenBudget(store, sorted, 1, <<>>, 0)} :
            /\ turn_number' = turn
            /\ main' = [main EXCEPT ![c] =
                         [pc |-> "mark", turn |-> turn, message |-> m,
                          wait |-> "none", handed |-> <<>>,
                          result |-> [TurnResult(turn, m) EXCEPT
                             !.memories_used =
                                [i \in DOMAIN cut.memories |->
                                   store.objs[cut.memories[i]].memory_id]],
                          accepted |-> cut.memories,
                          pending |-> cut.memories,
                          mem |-> NoRef]]
    /\ UNCHANGED <<storeVars, history, lock, tasks, results>>

\* mark_recalled: mem = self.warm.get_by_id(memory_id); if mem:
ChatMarkLookup(c) ==
    /\ main[c].pc = "mark"
    /\ main[c].pending # <<>>
    /\ \E ref \in {WarmGetById(store,
                       store.objs[Head(main[c].pending)].memory_id)} :
          main' = [main EXCEPT
                     ![c].pc = IF ref = NoRef THEN "mark" ELSE "mark_write",
                     ![c].mem = ref,
                     ![c].pending = IF ref = NoRef THEN Tail(@) ELSE @]
    /\ UNCHANGED <<storeVars, turn_number, history, lock, tasks, results>>

\* mark_recalled: the assignments to mem, warm.upsert(mem), cold.upsert(mem)
ChatMarkWrite(c) ==
    /\ main[c].pc = "mark_write"
    /\ store' = MarkRecalledWrite(store, main[c].mem, main[c].turn)
    /\ main' = [main EXCEPT ![c].pc = "mark", ![c].mem = NoRef,
                            ![c].pending = Tail(@)]
    /\ UNCHANGED <<nextId, last, batch, calls, turn_number, history, lock,
                   tasks, results>>

\* retrieve: step 6, the prompt block, and the return to chat().
ChatBlock(c) ==
    /\ main[c].pc = "mark"
    /\ main[c].pending = <<>>
    /\ main' = [main EXCEPT
                  ![c].pc = "llm",
                  ![c].result.prompt_block =
                      BuildPromptBlock(store, main[c].accepted)]
    /\ UNCHANGED <<storeVars, turn_number, history, lock, tasks, results>>

\* The steps of chat() called by thread c, the retrieval in its steps.
ChatRacing(c) ==
    \/ ChatSelect(c) \/ ChatMarkLookup(c) \/ ChatMarkWrite(c) \/ ChatBlock(c)
    \/ ChatRespond(c) \/ ChatAppendUser(c) \/ ChatAppendAssistant(c)
    \/ ChatTruncate(c) \/ JoinReturns(c) \/ JoinExpires(c) \/ ChatReturn(c)

InitRace ==
    /\ store = Seeded(EmptyStore(":memory:"), RaceSeeds, 1)
    /\ nextId = Len(RaceSeeds) + 1
    /\ last = NoCall
    /\ batch = NoBatch
    /\ calls = 0
    /\ EngineInit

NextRace == ChatRacing(1) \/ \E t \in TaskIds : Task(t)

SpecRace == InitRace /\ [][NextRace]_vars

GEMINI_ERROR_PREFIX == "[Gemini API Error"
LLM_ERROR_PREFIX == "[LLM error"

\* response.text of a call that succeeded
GeminiText == Str(<<"sure">>)
\* f"[Gemini API Error: {str(e)}]"
GeminiError == Str(<<GEMINI_ERROR_PREFIX, ":", "e", "]">>)
\* f"[LLM error: {e}]"
LlmError == Str(<<LLM_ERROR_PREFIX, ":", "e", "]">>)

\* content.startswith(prefix), for a prefix that is one token
StartsWith(content, prefix) ==
    /\ ~content.pad
    /\ content.words # <<>>
    /\ content.words[1] = prefix

\* while gemini_history and gemini_history[-1]["role"] != "model": pop()
RECURSIVE TrimTail(_)
TrimTail(h) ==
    IF h # <<>> /\ h[Len(h)].role # "model"
    THEN TrimTail(SubSeq(h, 1, Len(h) - 1))
    ELSE h

\* gemini_history of gemini_wrapper: the entries that do not start with the
\* error prefix, with Gemini's roles, the tail trimmed.
GeminiHistory(h) ==
    LET kept == SelectSeq(h, LAMBDA turn :
                    ~StartsWith(turn.content, GEMINI_ERROR_PREFIX))
    IN TrimTail([i \in DOMAIN kept |->
                   [role |-> IF kept[i].role = "assistant" THEN "model"
                             ELSE "user",
                    parts |-> <<kept[i].content>>]])

\* What gemini_wrapper returns: the text of send_message, or its error
\* string when send_message raises.
GeminiOutcomes == {GeminiText, GeminiError}

\* chat(): response = self._call_llm(system_prompt, user_message) with
\* llm_fn = gemini_wrapper; handed is the history given to start_chat.
ChatRespondGemini(c) ==
    /\ main[c].pc = "llm"
    /\ \E response \in GeminiOutcomes :
          main' = [main EXCEPT ![c].pc = "append_user",
                               ![c].handed = GeminiHistory(history),
                               ![c].result.response = response]
    /\ UNCHANGED <<storeVars, turn_number, history, lock, tasks, results>>

ChatGemini(c) ==
    \/ ChatRetrieve(c) \/ ChatRespondGemini(c) \/ ChatAppendUser(c)
    \/ ChatAppendAssistant(c) \/ ChatTruncate(c)
    \/ JoinReturns(c) \/ JoinExpires(c) \/ ChatReturn(c)

GeminiTurns == 1..MaxDialogue

InitGemini ==
    /\ store = EmptyStore(":memory:")
    /\ nextId = 1
    /\ last = NoCall
    /\ batch = NoBatch
    /\ calls = 0
    /\ turn_number = 0
    /\ history = <<>>
    /\ lock = NoTask
    /\ main = [c \in Callers |-> NotInChat]
    /\ tasks = [t \in GeminiTurns |-> NoThread]
    /\ results = <<>>

NextGemini == ChatGemini(1) \/ \E t \in GeminiTurns : Task(t)

SpecGemini == InitGemini /\ [][NextGemini]_vars

(************** chat() with an llm_fn that may raise ***********************)
\* What llm_fn returns
LlmText == Str(<<"ok">>)

\* chat(): response = self._call_llm(system_prompt, user_message): llm_fn
\* returns a text, or raises and _call_llm returns its error string.
ChatRespondLlm(c) ==
    /\ main[c].pc = "llm"
    /\ \E response \in {LlmText, LlmError} :
          main' = [main EXCEPT ![c].pc = "append_user",
                               ![c].handed = history,
                               ![c].result.response = response]
    /\ UNCHANGED <<storeVars, turn_number, history, lock, tasks, results>>

\* The steps of chat() after the retrieval.
ChatProceeds(c) ==
    \/ ChatRespondLlm(c) \/ ChatAppendUser(c)
    \/ ChatAppendAssistant(c) \/ ChatTruncate(c)
    \/ JoinReturns(c) \/ JoinExpires(c) \/ ChatReturn(c)

NextFailing ==
    \/ ChatRetrieve(1) \/ ChatProceeds(1)
    \/ \E t \in TaskIds : Task(t)

\* The scheduler runs every thread that can take a step: a call of chat()
\* that was made goes on, the caller may make no further call.
SpecFailing ==
    /\ InitEngine /\ [][NextFailing]_vars
    /\ WF_vars(ChatProceeds(1))
    /\ \A t \in TaskIds : WF_vars(Task(t))

(****************** seeding, curating, recalling, sweeping ******************)
\* What a caller may pass to inject_memory: [type, key, value, confidence];
\* the confidence is any float the caller likes.
InjectPool ==
    { [type |-> "fact", key |-> "name", value |-> Str(<<"Arjun">>), conf |-> 99],
      [type |-> "preference", key |-> "tone", value |-> Str(<<"brief">>),
       conf |-> 120],
      [type |-> "constraint", key |-> "diet", value |-> Vegan, conf |-> 20] }

\* engine.inject_memory(key, value, mem_type, confidence) between turns
Inject ==
    \E c \in InjectPool, t \in 0..MaxTurn :
        /\ ~batch.active
        /\ nextId <= MaxIds
        /\ store' = InjectMemory(store, nextId, c, t)
        /\ nextId' = nextId + 1
        /\ Called("inject_memory", nextId, t, <<>>)
        /\ UNCHANGED batch

\* store.mark_recalled(id, turn) between two batches
Recall ==
    /\ ~batch.active
    /\ MarkRecalled

\* store.update(id, new_value, turn) between two batches
Revise ==
    /\ ~batch.active
    /\ Update

NextHeat ==
    \/ Inject \/ ProcessBegin \/ ProcessStep \/ ProcessEnd
    \/ Recall \/ Revise \/ RunDecay

SpecHeat == Init /\ [][NextHeat]_vars

(****************** decay sweeps, one per turn *****************************)
\* Two memories seeded at turn 0 with heat 1.0: record 1 is never recalled,
\* record 2 may be recalled on any turn.
SweepSeeds ==
    << [type |-> "fact", key |-> "name", value |-> Str(<<"Arjun">>),
        conf |-> HEAT_ONE],
       [type |-> "preference", key |-> "tone", value |-> Str(<<"brief">>),
        conf |-> HEAT_ONE] >>

InitSweeps ==
    /\ \E path \in {":memory:", "mnemosyne_memories.db"} :
          store = Seeded(EmptyStore(path), SweepSeeds, 1)
    /\ nextId = Len(SweepSeeds) + 1
    /\ last = NoCall
    /\ batch = NoBatch
    /\ calls = 0
    /\ EngineInit

\* Turn calls + 1 recalls record 2 before its sweep.
RecallOther ==
    /\ calls < MaxSweeps
    /\ last.op # "mark_recalled"
    /\ store' = StoreMarkRecalled(store, 2, calls + 1)
    /\ last' = [op |-> "mark_recalled", id |-> 2, turn |-> calls + 1,
                ret |-> <<>>]
    /\ UNCHANGED <<nextId, batch, calls, engineVars>>

\* The sweep of turn calls + 1: apply_decay(calls + 1).
Sweep ==
    /\ calls < MaxSweeps
    /\ \E lo \in SUBSET AtThreshold(store, calls + 1) :
         \E R \in {StoreApplyDecay(store, calls + 1, lo)} :
            /\ store' = R.S
            /\ last' = [op |-> "apply_decay", id |-> NoId,
                        turn |-> calls + 1, ret |-> R.evicted]
    /\ calls' = calls + 1
    /\ UNCHANGED <<nextId, batch, engineVars>>

NextSweeps == RecallOther \/ Sweep

SpecSweeps == InitSweeps /\ [][NextSweeps]_vars

(********************* MnemosyneEngine.reset *******************************)
DbPaths == {":memory:", "mnemosyne_memories.db"}

\* The memory_ids a store holds in any of its three tiers.
HeldIds(S) ==
    {S.objs[S.hot[i]].memory_id : i \in DOMAIN S.hot}
        \cup WarmIds(S) \cup DOMAIN S.cold

\* reset(): a new MemoryStore on self.db_path, new agents, turn_number = 0,
\* history = [], called between turns with no background thread running.
\* last records the ids the store held before the call.
Reset ==
    /\ \A c \in Callers : main[c].pc = "idle"
    /\ \A t \in DOMAIN tasks : ~IsAlive(t)
    /\ calls = 0
    /\ \E order \in Orders(ColdGetAllActive(Reopen(store))) :
          store' = StoreInit(store, order)
    /\ turn_number' = 0
    /\ history' = <<>>
    /\ calls' = calls + 1
    /\ last' = [op |-> "reset", id |-> NoId, turn |-> turn_number,
                ret |-> HeldIds(store)]
    /\ UNCHANGED <<nextId, batch, lock, main, tasks, results>>

InitReset ==
    /\ \E path \in DbPaths : store = EmptyStore(path)
    /\ nextId = 1
    /\ last = NoCall
    /\ batch = NoBatch
    /\ calls = 0
    /\ EngineInit

\* Turns of chat() until the session is reset.
ChatUntilReset == calls = 0 /\ NextEngine

NextReset == ChatUntilReset \/ Reset

SpecReset == InitReset /\ [][NextReset]_vars

(************* the store API on either kind of durable location ************)
InitStartup ==
    /\ \E path \in DbPaths : store = EmptyStore(path)
    /\ nextId = 1
    /\ last = NoCall
    /\ batch = NoBatch
    /\ calls = 0
    /\ EngineInit

SpecStartup == InitStartup /\ [][Next]_vars

(***************** Curator.parse_llm_decision (judge path) *****************)
\* JSON values as json.loads returns them.
JsonNull == [json |-> "null"]
JsonStr(w) == [json |-> "string", s |-> w]
JsonObject(members) == [json |-> "object", members |-> members]

\* The members a judge may put into its object: an operation (one of the
\* four, a name that is none of them, the name in lower case, null) and a
\* target_id (an id, null), each present or not.
JudgeObjects ==
    LET operations == {JsonStr(w) : w \in {"ADD", "UPDATE", "DELETE", "NOOP",
                                           "MERGE", "add"}} \cup {JsonNull}
        targets == {JsonStr("m1"), JsonNull}
    IN {JsonObject(<<>>)}
         \cup {JsonObject([k \in {"operation"} |-> o]) : o \in operations}
         \cup {JsonObject([k \in {"target_id"} |-> t]) : t \in targets}
         \cup {JsonObject([k \in {"operation", "target_id"} |->
                              IF k = "operation" THEN o ELSE t]) :
                  o \in operations, t \in targets}

\* What the text between the fences denotes: nothing (it is not JSON), or a
\* JSON value.
JudgeBodies ==
    {[json |-> "invalid"], [json |-> "array"], JsonStr("ADD"),
     [json |-> "number"], [json |-> "true"], JsonNull} \cup JudgeObjects

\* The judge's answers: the body bare, inside code fences, or
\* inside fences after a sentence of prose, with or without blanks around.
JudgeResponses ==
    [fence : {"none", "fence", "fence json", "prose fence json"}, pad : BOOLEAN,
     body : JudgeBodies]

\* response.strip(), then the fences taken off a text that starts with one.
CleanResponse(response) ==
    IF response.fence \in {"fence", "fence json"}
    THEN [fence |-> "none", pad |-> FALSE, body |-> response.body]
    ELSE [response EXCEPT !.pad = FALSE]

\* json.loads(clean): the value, or JSONDecodeError.
JsonLoads(clean) ==
    IF clean.fence = "none" /\ clean.body.json # "invalid"
    THEN [raised |-> "none", data |-> clean.body]
    ELSE [raised |-> "JSONDecodeError"]

\* CuratorOp(value): the member of the enumeration, or ValueError.
CuratorOpOf(value) ==
    IF value \in {JsonStr(w) : w \in CuratorOp}
    THEN [raised |-> "none", op |-> value.s]
    ELSE [raised |-> "ValueError"]

\* target_id of a decision built from data.get("target_id")
TargetId(value) == IF value = JsonNull THEN NoId ELSE value.s

\* parse_llm_decision(response, candidate): the decision returned, or the
\* exception that leaves the method.
ParseLlmDecision(response, candidate) ==
    LET loaded == JsonLoads(CleanResponse(response))
        fallback == [raised |-> "none",
                     decision |-> Decision("ADD", candidate, NoId)]
    IN IF loaded.raised # "none" THEN fallback
       ELSE IF loaded.data.json # "object"
            THEN [raised |-> "AttributeError"]
            ELSE LET data == loaded.data.members
                     op == CuratorOpOf(Get(data, "operation", JsonStr("NOOP")))
                 IN IF op.raised # "none" THEN fallback
                    ELSE [raised |-> "none",
                          decision |->
                              Decision(op.op, candidate,
                                       TargetId(Get(data, "target_id",
                                                    JsonNull)))]

\* curator.parse_llm_decision(response, candidate) on an answer of the judge
ParseDecision ==
    \E response \in JudgeResponses, c \in CandPool :
        /\ Called("parse_llm_decision", NoId, 0,
                  [response |-> response, candidate |-> c,
                   outcome |-> ParseLlmDecision(response, c)])
        /\ UNCHANGED <<store, nextId, batch>>

NextJudge == ParseDecision

SpecJudge == Init /\ [][NextJudge]_vars

(***************************************************************************)
(* Claims about the store (specification Spec).                            *)
(***************************************************************************)
Count(q, x) == Cardinality({i \in DOMAIN q : q[i] = x})

InSomeTier(S, id) ==
    id \in WarmIds(S) \/ id \in DOMAIN S.chroma \/ id \in DOMAIN S.cold

\* C2: in apply_decay(current_turn), every record decremented to a heat
\* below the eviction threshold is gone from the searchable tier (cache and
\* collection) and from the durable tier when the sweep returns and is once
\* in the returned list; no id in the list is still in a tier.
C2_EvictedGoneAndListedOnce ==
    [][last'.op = "apply_decay" =>
        /\ \A id \in WarmIds(store) :
             LET o == WarmObj(store, id)
             IN (/\ o.last_recalled_turn < last'.turn
                 /\ Max(0, o.heat - HEAT_DECAY_PER_TURN) < HEAT_EVICT_THRESHOLD)
                => /\ ~InSomeTier(store', id)
                   /\ Count(last'.ret, id) = 1
        /\ \A i \in DOMAIN last'.ret :
             /\ ~InSomeTier(store', last'.ret[i])
             /\ Count(last'.ret, last'.ret[i]) = 1
             /\ last'.ret[i] \in WarmIds(store)
      ]_vars

\* A sweep has evicted one record and kept another.
C2_Witness ==
    /\ last.op = "apply_decay"
    /\ Len(last.ret) = 1
    /\ store.warm # <<>>
    /\ DOMAIN store.cold = WarmIds(store)

\* C3: apply_decay(current_turn) lowers the heat of every stored record not
\* recalled on current_turn by the decay amount, floored at 0, leaves the
\* records recalled on current_turn alone and raises no heat.
C3_DecayLowersEveryRecordNotRecalledNow ==
    [][last'.op = "apply_decay" =>
        \A r \in Range(store.warm) :
            LET o == store.objs[r]
                n == store'.objs[r]
            IN /\ o.last_recalled_turn # last'.turn
                    => n.heat = Max(0, o.heat - HEAT_DECAY_PER_TURN)
               /\ o.last_recalled_turn = last'.turn => n.heat = o.heat
               /\ n.heat <= o.heat
      ]_vars

\* C9: after update(id, new_value, turn) on an id the store holds, the copy
\* in the searchable tier and the copy in the durable tier both have the new
\* value, last_recalled_turn = turn and embed_text "key: new_value"; the
\* other fields are as before.
UpdatedFrom(n, o, v, t) ==
    n = [o EXCEPT !.value = v, !.last_recalled_turn = t,
                  !.embed_text = EmbedText(o.key, v)]

C9_UpdateReachesBothTiers ==
    [][(last'.op = "update" /\ last'.id \in WarmIds(store) \cup DOMAIN store.cold) =>
        LET id == last'.id
            v == last'.ret[1]
        IN /\ id \in WarmIds(store') /\ id \in DOMAIN store'.cold
           /\ id \in WarmIds(store) =>
                UpdatedFrom(WarmObj(store', id), WarmObj(store, id), v, last'.turn)
           /\ id \in DOMAIN store.cold =>
                UpdatedFrom(store'.cold[id], store.cold[id], v, last'.turn)
           /\ store'.chroma[id] = EmbedText(store'.cold[id].key, v)
      ]_vars

\* C10: a new store on the same persistent location holds in its searchable
\* tier the ids held before, each with the same fields; a second start-up
\* changes nothing.
C10_RestartRoundTrip ==
    [][(last'.op = "init" /\ store.db_path # ":memory:") =>
        /\ WarmIds(store') = WarmIds(store)
        /\ \A id \in WarmIds(store) : WarmObj(store', id) = WarmObj(store, id)
        /\ \A order \in Orders(ColdGetAllActive(Reopen(store'))) :
             LET again == StoreInit(store', order)
             IN /\ WarmIds(again) = WarmIds(store')
                /\ \A id \in WarmIds(store') :
                     WarmObj(again, id) = WarmObj(store', id)
                /\ again.cold = store'.cold /\ again.chroma = store'.chroma
      ]_vars

\* C19: update and delete on an id that neither the searchable nor the
\* durable tier holds return normally and leave the store, its three tiers
\* and their objects, as it was.
C19_UnknownIdIsNoOp ==
    [][( /\ calls' = calls + 1
         /\ last'.op \in {"update", "delete"}
         /\ last'.id \notin WarmIds(store)
         /\ last'.id \notin DOMAIN store.chroma
         /\ last'.id \notin DOMAIN store.cold ) => store' = store
      ]_vars

\* An update of a record deleted before: the recent tier still holds it.
C19_Witness ==
    /\ last.op = "update"
    /\ ~InSomeTier(store, last.id)
    /\ \E i \in DOMAIN store.hot : store.objs[store.hot[i]].memory_id = last.id

\* What mark_recalled(id, turn) makes of a record or row r.
Recalled(r, turn) ==
    [r EXCEPT !.heat = Min(HEAT_ONE, r.heat + HEAT_RECALL_BOOST),
              !.last_recalled_turn = turn,
              !.status = "active"]

\* C20: mark_recalled(id, turn) on an id of the searchable tier sets heat to
\* min(1.0, heat + 0.25), last_recalled_turn to turn and status to active in
\* the searchable and in the durable tier, and changes no other field and no
\* other record; on an id the searchable tier does not hold it changes
\* nothing.
C20_MarkRecalledBoostsOneRecord ==
    [][(calls' = calls + 1 /\ last'.op = "mark_recalled") =>
        LET id == last'.id
        IN IF id \in WarmIds(store)
           THEN /\ WarmIds(store') = WarmIds(store)
                /\ DOMAIN store'.cold = DOMAIN store.cold
                /\ id \in DOMAIN store.cold
                /\ WarmObj(store', id) = Recalled(WarmObj(store, id), last'.turn)
                /\ store'.cold[id] = Recalled(store.cold[id], last'.turn)
                /\ \A j \in WarmIds(store) \ {id} :
                      WarmObj(store', j) = WarmObj(store, j)
                /\ \A j \in DOMAIN store.cold \ {id} :
                      store'.cold[j] = store.cold[j]
                /\ store'.chroma = store.chroma
                /\ store'.warm = store.warm
                /\ store'.hot = store.hot
           ELSE store' = store
      ]_vars

C20_Witness ==
    /\ last.op = "mark_recalled"
    /\ last.id \in WarmIds(store)
    /\ WarmObj(store, last.id).heat < HEAT_ONE
    /\ WarmObj(store, last.id).last_recalled_turn = last.turn
    /\ store.cold[last.id].heat = WarmObj(store, last.id).heat
    /\ Cardinality(WarmIds(store)) > 1

(***************************************************************************)
(* Claims about the Curator (specification SpecCurator).                   *)
(***************************************************************************)
HoldsActive(S, k, ty) ==
    \E r \in Range(StoreGetAllActive(S)) :
        S.objs[r].key = k /\ S.objs[r].type = ty

\* C1: whenever process decides a candidate while the store holds an active
\* record with the candidate's (key, type), the decision is UPDATE or NOOP.
C1_SameKeyIsUpdateOrNoop ==
    [][(batch.active /\ batch'.active /\ batch'.i = batch.i + 1) =>
        LET c == store.objs[batch.cands[batch.i]]
            d == batch'.decisions[batch.i]
        IN HoldsActive(store, c.key, c.type)
              => d.operation \in {"UPDATE", "NOOP"}
      ]_vars

\* The active records of S with identity (k, ty), as heap references.
ActiveHolders(S, k, ty) ==
    {r \in Range(StoreGetAllActive(S)) :
        S.objs[r].key = k /\ S.objs[r].type = ty}

\* C13: when process decides a candidate while the store holds an active
\* record R with the candidate's (key, type) and a different normalized
\* value, the decision is UPDATE with target R's id; afterwards R, under the
\* same id, holds the candidate's value and the store holds as many records
\* as before.
C13_SameKeyNewValueUpdates ==
    [][(batch.active /\ batch'.active /\ batch'.i = batch.i + 1) =>
        LET c == store.objs[batch.cands[batch.i]]
            d == batch'.decisions[batch.i]
        IN \A r \in ActiveHolders(store, c.key, c.type) :
              ~ValuesAreSame(c.value, store.objs[r].value) =>
                 /\ d.operation = "UPDATE"
                 /\ d.target_id = store.objs[r].memory_id
                 /\ store.objs[r].memory_id \in WarmIds(store')
                 /\ WarmObj(store', store.objs[r].memory_id).value = c.value
                 /\ Cardinality(WarmIds(store')) = Cardinality(WarmIds(store))
                 /\ DOMAIN store'.cold = DOMAIN store.cold
      ]_vars

\* The hits of the curator's search for candidate c, under the backend's
\* answer a, that are at or above the conflict threshold and whose value
\* holds numeric tokens other than those of c's value.
NumericConflicts(S, c, a) ==
    LET similar == StoreSemanticSearch(S, a, 3, SIMILARITY_FOR_CONFLICT)
    IN {similar[i].ref : i \in
          {j \in DOMAIN similar :
             /\ ScoreGE(similar[j], SIMILARITY_FOR_CONFLICT)
             /\ Nums(LowerStrip(c.value)) # {}
             /\ Nums(LowerStrip(S.objs[similar[j].ref].value)) # {}
             /\ Nums(LowerStrip(c.value))
                   # Nums(LowerStrip(S.objs[similar[j].ref].value))}}

\* C14: when process decides a candidate that has no active record with its
\* (key, type) in the store, and the semantic search for it returns a record
\* at or above the conflict threshold with different numeric tokens, the
\* decision is DELETE on such a record; afterwards the target is in neither
\* the searchable nor the durable tier, the candidate is in both, and the
\* store holds as many records as before.
C14_NumericConflictReplaces ==
    [][(batch.active /\ batch'.active /\ batch'.i = batch.i + 1) =>
        LET cand == batch.cands[batch.i]
            c == store.objs[cand]
            d == batch'.decisions[batch.i]
        IN \A a \in QueryAnswers(store, c.embed_text) :
              ( /\ Decide(store, batch.table, cand, a) = d
                /\ ActiveHolders(store, c.key, c.type) = {}
                /\ NumericConflicts(store, c, a) # {} ) =>
                 /\ d.operation = "DELETE"
                 /\ d.target_id \in
                      {store.objs[r].memory_id :
                          r \in NumericConflicts(store, c, a)}
                 /\ d.target_id \notin WarmIds(store')
                 /\ d.target_id \notin DOMAIN store'.cold
                 /\ c.memory_id \in WarmIds(store')
                 /\ c.memory_id \in DOMAIN store'.cold
                 /\ Cardinality(WarmIds(store')) = Cardinality(WarmIds(store))
                 /\ Cardinality(DOMAIN store'.cold)
                       = Cardinality(DOMAIN store.cold)
      ]_vars

(***************************************************************************)
(* Claims about the Oracle (specification SpecOracle).                     *)
(***************************************************************************)
RECURSIVE SumTokens(_, _, _)
SumTokens(S, ids, i) ==
    IF i > Len(ids) THEN 0
    ELSE EstimatedTokens(WarmObj(S, ids[i])) + SumTokens(S, ids, i + 1)

\* C4: the estimated token costs of the returned memories sum to at most
\* the budget, and the returned memories are the longest prefix of the
\* relevance-sorted merged candidates that fits it, in the same order.
C4_BudgetPrefix ==
    [][last'.op = "retrieve" =>
        LET mem == last'.ret.memories
            ranked == last'.ret.ranked
            n == Len(mem)
        IN /\ SumTokens(store, mem, 1) <= MAX_MEMORY_TOKENS
           /\ last'.ret.total_tokens = SumTokens(store, mem, 1)
           /\ n <= Len(ranked) /\ mem = SubSeq(ranked, 1, n)
           /\ n < Len(ranked) =>
                SumTokens(store, SubSeq(ranked, 1, n + 1), 1) > MAX_MEMORY_TOKENS
           /\ \A i, j \in DOMAIN ranked :
                i < j => ~RelevanceGT(WarmObj(store, ranked[j]),
                                      WarmObj(store, ranked[i]), last'.turn)
      ]_vars

\* The budget has cut the ranked list before a record that would still fit.
C4_Witness ==
    /\ last.op = "retrieve"
    /\ last.ret.memories # <<>>
    /\ Len(last.ret.ranked) >= Len(last.ret.memories) + 2
    /\ \E i \in DOMAIN last.ret.ranked :
         /\ i > Len(last.ret.memories) + 1
         /\ last.ret.total_tokens
              + EstimatedTokens(WarmObj(store, last.ret.ranked[i]))
              <= MAX_MEMORY_TOKENS

AlwaysInjected(S) ==
    {id \in WarmIds(S) :
        /\ WarmObj(S, id).type \in Range(ALWAYS_INJECT_TYPES)
        /\ WarmObj(S, id).status # "evicted"}

InSection(t) ==
    tasks[t].pc \in {"extract", "process", "loop", "decay", "write"}

\* C6: at every instant at most one background thread, over all turns, is
\* inside the extraction + process + run_decay section, and it is the one
\* holding the lock.
C6_OneTaskInSection ==
    /\ Cardinality({t \in TaskIds : InSection(t)}) <= 1
    /\ \A t \in TaskIds : InSection(t) => lock = t

\* The threads of two turns overlap: one is in the loop of process while
\* the thread of a later turn waits for the lock.
C6_Witness ==
    \E t1, t2 \in TaskIds :
        /\ t1 < t2
        /\ tasks[t1].pc = "loop"
        /\ tasks[t1].cands # <<>>
        /\ tasks[t2].pc = "acquire"

\* The four fields of a TurnResult are the defaults.
HasDefaults(r) ==
    /\ r.sentinel_extracted = 0
    /\ r.memories_added = <<>>
    /\ DOMAIN r.curator_ops = {}
    /\ r.evicted = <<>>

\* The four fields of a TurnResult are what the thread of its turn wrote.
HasOutputs(r) ==
    LET out == tasks[r.turn_number].async_output
    IN /\ DOMAIN out = {"sentinel_extracted", "memories_added",
                        "curator_ops", "evicted"}
       /\ r.sentinel_extracted = out.sentinel_extracted
       /\ r.memories_added = out.memories_added
       /\ DOMAIN r.curator_ops = CuratorOp
       /\ r.curator_ops = out.curator_ops
       /\ r.evicted = out.evicted

C8_SpawnedTaskCompletes ==
    \A t \in TaskIds :
        (tasks[t].pc = "acquire") ~>
            (/\ tasks[t].pc = "done"
             /\ lock # t
             /\ DOMAIN tasks[t].async_output # {}
             /\ Len(tasks[t].decisions) = tasks[t].extracted)

\* chat() returned the defaults for a turn whose wait expired, and the
\* thread of that turn has since ended with its decision executed while a
\* later turn's thread was started.
C8_Witness ==
    \E i \in DOMAIN results :
        LET t == results[i].result.turn_number
        IN /\ results[i].alive
           /\ HasDefaults(results[i].result)
           /\ tasks[t].pc = "done"
           /\ tasks[t].decisions # <<>>
           /\ \E u \in TaskIds : u > t /\ tasks[u].pc # "none"

(***************************************************************************)
(* Claims about repeated adds (specification SpecReAdd).                   *)
(***************************************************************************)
\* The records a tier of references holds, as a set.
RecordsOf(S, refs) == {S.objs[refs[i]] : i \in DOMAIN refs}

\* C11: a second add of an identical record leaves the record sets of the
\* recent, the searchable and the durable tier as they were.
C11_AddIsIdempotent ==
    [][last'.op = "add_again" =>
        /\ RecordsOf(store', store'.hot) = RecordsOf(store, store.hot)
        /\ RecordsOf(store', store'.warm) = RecordsOf(store, store.warm)
        /\ store'.chroma = store.chroma
        /\ store'.cold = store.cold
      ]_vars

(***************************************************************************)
(* Claims about reset (specification SpecReset).                           *)
(***************************************************************************)
\* C12: after reset() the turn counter is 0, the history is empty, the
\* durable location is the one before, and the store holds none of the
\* records it held before the reset, for either kind of location.
C12_ResetWipesSession ==
    [][last'.op = "reset" =>
        /\ turn_number' = 0
        /\ history' = <<>>
        /\ store'.db_path = store.db_path
        /\ HeldIds(store') \cap HeldIds(store) = {}
      ]_vars

(***************************************************************************)
(* Claims about repeated sweeps (specification SpecSweeps); calls counts   *)
(* the sweeps done, each of which decays record 1.                         *)
(***************************************************************************)
Stored(S, id) == id \in WarmIds(S) /\ id \in DOMAIN S.cold

Purged(S, id) == id \notin WarmIds(S) /\ id \notin DOMAIN S.cold

TurnsDone ==
    IF main[1].pc \in {"join", "check"}
    THEN Append(results, [result |-> main[1].result])
    ELSE results

C17_NeverExceedsWindow == Len(history) <= HISTORY_WINDOW

\* The (user message, response) pairs of the turns made so far.
TurnPairs ==
    {<<results[i].result.user_message, results[i].result.response>> :
        i \in DOMAIN results}
    \cup {<<main[c].message.text, main[c].result.response>> :
            c \in {k \in Callers : main[k].pc \notin {"idle", "llm"}}}

PairsComplete(h) ==
    /\ Len(h) % 2 = 0
    /\ \A i \in DOMAIN h :
          h[i].role = IF i % 2 = 1 THEN "user" ELSE "assistant"
    /\ \A i \in DOMAIN h :
          i % 2 = 0 => <<h[i - 1].content, h[i].content>> \in TurnPairs

\* C18: the history handed to the LLM function, and the history seen while
\* no chat() is running, is made of complete pairs: even length, user and
\* assistant alternating from a user entry, each assistant entry the
\* response to the user entry before it; with several calling threads too.
C18_HistoryHoldsCompletePairs ==
    /\ \A c \in Callers : PairsComplete(main[c].handed)
    /\ (\A c \in Callers : main[c].pc = "idle") => PairsComplete(history)

(***************************************************************************)
(* Claims about heat and status (specification SpecHeat).                  *)
(***************************************************************************)
\* The records a store holds: the objects of the recent and of the
\* searchable tier and the rows of the durable tier.
HeldRecords(S) ==
    {S.objs[S.hot[i]] : i \in DOMAIN S.hot}
        \cup {S.objs[S.warm[i]] : i \in DOMAIN S.warm}
        \cup {S.cold[id] : id \in DOMAIN S.cold}

\* C21: every record held in a tier of the store has 0 <= heat <= 1.
C21_HeatInUnitInterval ==
    \A r \in HeldRecords(store) : 0 <= r.heat /\ r.heat <= HEAT_ONE

\* The records of the searchable and of the durable tier.
StoredRecords(S) ==
    {S.objs[S.warm[i]] : i \in DOMAIN S.warm}
        \cup {S.cold[id] : id \in DOMAIN S.cold}

\* C22: for every record of the searchable or the durable tier the status
\* follows from the heat: active when heat >= 0.3, decaying when
\* 0.08 <= heat < 0.3, and no record of heat below 0.08 or of status evicted
\* is held.  A heat whose decimals sit on 0.3 or 0.08 compares either way in
\* doubles, so there either neighbouring status agrees with it.
C22_StatusFollowsHeat ==
    \A r \in StoredRecords(store) :
        /\ r.status # "evicted"
        /\ r.heat >= HEAT_EVICT_THRESHOLD
        /\ r.heat > HEAT_DECAYING_BELOW => r.status = "active"
        /\ r.heat < HEAT_DECAYING_BELOW => r.status = "decaying"

\* The memory_ids of the recent tier, newest first.
HotIds(S) == [i \in DOMAIN S.hot |-> S.objs[S.hot[i]].memory_id]

\* The memory_ids of the searchable tier: of the cache and of the collection.
SearchableIds(S) == WarmIds(S) \cup DOMAIN S.chroma

\* C23: after every completed operation of the store (add, update, delete,
\* mark_recalled, apply_decay, startup) the searchable and the durable tier
\* hold the same ids, and only add changes the ids of the recent tier (a store
\* that starts has an empty one).
C23_TiersHoldSameIds ==
    [][/\ SearchableIds(store') = DOMAIN store'.cold
       /\ HotIds(store') # HotIds(store) =>
              \/ last'.op = "add"
              \/ last'.op = "init" /\ HotIds(store') = <<>>]_vars

\* The answer is malformed: no JSON, JSON that is no object, or an object
\* whose operation is missing or is none of ADD, UPDATE, DELETE, NOOP.
Malformed(response) ==
    \/ response.fence = "prose fence json"
    \/ response.body.json # "object"
    \/ "operation" \notin DOMAIN response.body.members
    \/ response.body.members["operation"]
           \notin {JsonStr(w) : w \in CuratorOp}

\* C24: on every malformed answer of the judge parse_llm_decision returns the
\* decision ADD for the candidate, and raises nothing.
C24_MalformedAnswerIsAdd ==
    (last.op = "parse_llm_decision" /\ Malformed(last.ret.response)) =>
        /\ last.ret.outcome.raised = "none"
        /\ last.ret.outcome.decision.operation = "ADD"
        /\ last.ret.outcome.decision.candidate = last.ret.candidate

\* The dialogues given to start_chat by the calls in progress.
HandedDialogues ==
    {main[c].handed : c \in {d \in Callers : main[d].pc \notin {"idle", "llm"}}}

\* C25: the dialogue handed to the generation backend holds no model turn
\* that is the error string of an earlier failed call, alternates between
\* user and model turns, and is empty or ends on a model turn.
C25_HandedDialogueIsClean ==
    \A h \in HandedDialogues :
        /\ \A i \in DOMAIN h :
              h[i].role = "model" =>
                  /\ ~StartsWith(h[i].parts[1], GEMINI_ERROR_PREFIX)
                  /\ ~StartsWith(h[i].parts[1], LLM_ERROR_PREFIX)
        /\ \A i \in DOMAIN h : i < Len(h) => h[i].role # h[i + 1].role
        /\ h = <<>> \/ h[Len(h)].role = "model"

\* The extraction of turn t's thread failed: the model's answer for the
\* message has items over the threshold and the thread got none.
ExtractionFailed(t) ==
    /\ tasks[t].pc \notin {"none", "acquire", "extract"}
    /\ tasks[t].extracted = 0
    /\ FilteredIn(tasks[t].message.items, CONFIDENCE_THRESHOLD) # <<>>

\* chat() has returned the result of turn t with the error string.
ReturnedError(t) ==
    \E i \in DOMAIN results :
        /\ results[i].result.turn_number = t
        /\ results[i].result.response = LlmError

\* C26: a turn whose llm_fn raised is turn_number + 1 of the turns before
\* it, and chat() goes on to return its result with the error string after
\* starting the turn's thread; a thread whose extraction failed has no
\* candidate and goes on to the end through the decay sweep, with its outputs
\* written and no decision made.
C26_FailingCollaboratorIsNotFatal ==
    /\ [](\A c \in Callers :
             (main[c].pc = "append_user" /\ main[c].result.response = LlmError)
                 => /\ main[c].turn = Len(results) + 1
                    /\ turn_number = main[c].turn)
    /\ [](\A t \in TaskIds : ExtractionFailed(t) => tasks[t].cands = <<>>)
    /\ \A t \in TaskIds :
          (main[1].pc = "append_user" /\ main[1].turn = t
               /\ main[1].result.response = LlmError)
              ~> (ReturnedError(t) /\ tasks[t].pc # "none")
    /\ \A t \in TaskIds :
          ExtractionFailed(t) ~>
              (/\ tasks[t].pc = "done"
               /\ tasks[t].decisions = <<>>
               /\ "evicted" \in DOMAIN tasks[t].async_output
               /\ lock # t)

\* Both turns' calls of llm_fn raised and both results were returned; the
\* extraction of the second turn failed and its thread has ended.
C26_Witness ==
    /\ \A t \in TaskIds : ReturnedError(t)
    /\ ExtractionFailed(2)
    /\ tasks[2].pc = "done"
    /\ "evicted" \in DOMAIN tasks[2].async_output

\* The memory_ids of the active records of S with identity kt = (key, type).
ActiveIds(S, kt) ==
    {S.objs[r].memory_id : r \in ActiveHolders(S, kt[1], kt[2])}

\* The identities of the active records of S.
ActiveIdentities(S) ==
    {<<S.objs[r].key, S.objs[r].type>> : r \in Range(StoreGetAllActive(S))}

\* C27: inside a batch of process, after each executed decision, the table
\* has an entry for an identity exactly when the store holds an active
\* record with that identity, and the entry is such a record.
C27_TableAgreesWithStore ==
    (batch.active /\ batch.i > 1) =>
        \A kt \in DOMAIN batch.table \cup ActiveIdentities(store) :
            /\ kt \in DOMAIN batch.table <=> ActiveIds(store, kt) # {}
            /\ kt \in DOMAIN batch.table =>
                  store.objs[batch.table[kt]].memory_id \in ActiveIds(store, kt)

\* C28: between the batches of process no two active records of the store
\* have the same (key, type); the store starts empty, so each batch that
\* starts without such a pair ends without one.
C28_NoTwoActiveShareIdentity ==
    ~batch.active =>
        \A kt \in ActiveIdentities(store) :
            Cardinality(ActiveIds(store, kt)) = 1

\* The searchable or the durable tier of S holds a record with the key, the
\* type and the value of c.
HoldsRecordOf(S, c) ==
    \/ \E id \in WarmIds(S) :
          /\ WarmObj(S, id).key = c.key
          /\ WarmObj(S, id).type = c.type
          /\ WarmObj(S, id).value = c.value
    \/ \E id \in DOMAIN S.cold :
          /\ S.cold[id].key = c.key
          /\ S.cold[id].type = c.type
          /\ S.cold[id].value = c.value

\* C29: after process has executed an UPDATE decision the store holds a
\* record with the candidate's key, type and value, whether or not the
\* target id was still in the store.
C29_UpdateKeepsCandidate ==
    [][(batch.active /\ batch'.active /\ batch'.i = batch.i + 1) =>
        LET c == store.objs[batch.cands[batch.i]]
            d == batch'.decisions[batch.i]
        IN d.operation = "UPDATE" => HoldsRecordOf(store', c)
      ]_vars

(***************************************************************************)
(* Claims about retrieval and the lock (specification SpecRetrieval).      *)
(***************************************************************************)
\* The thread of turn t holds the lock and is in the loop of process or
\* about to run the decay sweep.
InProcessOrDecay(t) == lock = t /\ tasks[t].pc \in {"loop", "decay"}

\* C30: the lock does not cover retrieval: while the thread of a turn holds
\* the lock in the middle of process or before its decay sweep, and the store
\* holds a record, the retrieval of the next turn can run and write the
\* store.
C30_RetrievalRunsUnderHeldLock ==
    \A t \in TaskIds :
        ( /\ InProcessOrDecay(t)
          /\ WarmIds(store) # {}
          /\ main[1].pc = "idle"
          /\ turn_number = t
          /\ t + 1 \in TaskIds )
            => ENABLED (ChatRetrieve(1) /\ store' # store)

\* The retrieval of turn t + 1 has recalled a record that process of turn t
\* added, and the thread of turn t still holds the lock with its decay sweep
\* to come: the recall was written between two steps of that thread.
C30_Witness ==
    \E t \in TaskIds :
        /\ InProcessOrDecay(t)
        /\ main[1].pc = "llm"
        /\ main[1].turn = t + 1
        /\ \E i \in DOMAIN tasks[t].decisions :
              LET d == tasks[t].decisions[i]
                  id == store.objs[d.candidate].memory_id
              IN /\ d.operation = "ADD"
                 /\ id \in Range(main[1].result.memories_used)
                 /\ id \in WarmIds(store)
                 /\ WarmObj(store, id).last_recalled_turn = t + 1

(***************************************************************************)
(* Claims about retrieval and the prompt (specification SpecOracle).       *)
(***************************************************************************)
\* C31: retrieve(query, turn) marks as recalled exactly the records it
\* returns: each returned record has afterwards, in the searchable and in
\* the durable tier, last_recalled_turn = turn, heat = min(1.0, heat + 0.25)
\* and status active; every record it does not return (no candidate, or cut
\* off by the token budget) keeps its heat, last_recalled_turn and status.
C31_RetrieveMarksWhatItReturns ==
    [][(calls' = calls + 1 /\ last'.op = "retrieve") =>
        LET returned == Range(last'.ret.memories)
        IN /\ returned \subseteq WarmIds(store)
           /\ WarmIds(store') = WarmIds(store)
           /\ DOMAIN store'.cold = DOMAIN store.cold
           /\ \A id \in returned :
                 /\ WarmObj(store', id) = Recalled(WarmObj(store, id), last'.turn)
                 /\ id \in DOMAIN store.cold
                 /\ store'.cold[id] = Recalled(store.cold[id], last'.turn)
           /\ \A id \in WarmIds(store) \ returned :
                 WarmObj(store', id) = WarmObj(store, id)
           /\ \A id \in DOMAIN store.cold \ returned :
                 store'.cold[id] = store.cold[id]
      ]_vars

\* A retrieval that returned one record, cut a second off by the budget and
\* left a third out of the candidates.
C31_Witness ==
    /\ last.op = "retrieve"
    /\ \E id \in Range(last.ret.memories) :
          /\ WarmObj(store, id).last_recalled_turn = last.turn
          /\ WarmObj(store, id).heat = HEAT_ONE
          /\ store.cold[id].heat = HEAT_ONE
    /\ \E id \in Range(last.ret.ranked) :
          /\ id \notin Range(last.ret.memories)
          /\ WarmObj(store, id).last_recalled_turn # last.turn
    /\ \E id \in WarmIds(store) : id \notin Range(last.ret.ranked)

(***************************************************************************)
(* Claims about the order of the steps of a turn (specification            *)
(* SpecEngine).                                                            *)
(***************************************************************************)
\* The generation call of the chat() of caller c has returned.
Generated(c) == main[c].result.response # <<>>

\* The two entries chat() appends for the turn of message text and answer
\* response.
PairOf(text, response) ==
    <<[role |-> "user", content |-> text],
      [role |-> "assistant", content |-> response]>>

\* C32: within one chat() call, retrieval is complete before the generation
\* call starts (the call changes neither the store nor the retrieval's
\* results); the generation call has returned before the history grows, so
\* the history handed to it holds no entry of the current turn; and the
\* history holds the turn's pair, cut to the window, when the background
\* thread is started, not before.
C32_StepsOfChatInOrder ==
    [][\A c \in Callers :
        /\ (~Generated(c) /\ Generated(c)') =>
              /\ main[c].turn = turn_number
              /\ main[c].result.turn_number = main[c].turn
              /\ main'[c].result.memories_used = main[c].result.memories_used
              /\ main'[c].result.prompt_block = main[c].result.prompt_block
              /\ store' = store
              /\ history' = history
              /\ main'[c].handed = history
              /\ \A i \in DOMAIN history :
                    history[i].role = "assistant"
                       => history[i].content # main'[c].result.response
              /\ Len(history) = 2 * (main[c].turn - 1)
              /\ tasks[main[c].turn].pc = "none"
        /\ (main[c].pc # "idle" /\ history' # history) =>
              /\ Generated(c)
              /\ main'[c].result = main[c].result
              /\ store' = store
              /\ tasks[main[c].turn].pc = "none"
        /\ (main[c].pc # "idle" /\ tasks[main[c].turn].pc = "none"
              /\ tasks'[main[c].turn].pc # "none") =>
              /\ Generated(c)
              /\ Len(history') >= 2
              /\ SubSeq(history', Len(history') - 1, Len(history'))
                    = PairOf(main[c].message.text, main[c].result.response)
              /\ tasks'[main[c].turn].message = main[c].message
      ]_vars

\* The second turn of a caller has started its thread: the history handed
\* to its generation call was the pair of the first turn, and the history
\* now ends with its own pair.
C32_Witness ==
    \E c \in Callers :
        /\ main[c].turn = 2
        /\ tasks[2].pc # "none"
        /\ Len(main[c].handed) = 2
        /\ main[c].result.memories_used # <<>>
        /\ Len(history) = 4
        /\ history[4].content = main[c].result.response

(***************************************************************************)
(* Claims about duplicates and decisions (specifications SpecCurator and   *)
(* SpecEngine).                                                            *)
(***************************************************************************)
\* v1 and v2 differ at most in letter case and in whitespace.
SameButCaseAndSpace(v1, v2) ==
    [i \in DOMAIN v1.words |-> Lower(v1.words[i])]
        = [i \in DOMAIN v2.words |-> Lower(v2.words[i])]

\* C33: when process decides a candidate while the store holds an active
\* record with the candidate's (key, type) whose value differs from the
\* candidate's at most in letter case or whitespace, the decision is NOOP;
\* executing a NOOP decision leaves the three tiers as they were.
C33_DuplicateValueIsNoop ==
    [][(batch.active /\ batch'.active /\ batch'.i = batch.i + 1) =>
        LET c == store.objs[batch.cands[batch.i]]
            d == batch'.decisions[batch.i]
        IN /\ \A r \in ActiveHolders(store, c.key, c.type) :
                 SameButCaseAndSpace(c.value, store.objs[r].value)
                    => d.operation = "NOOP"
           /\ d.operation = "NOOP" => store' = store
      ]_vars

\* The sum of the per-operation counts of a turn.
SumCounts(counts) ==
    counts["ADD"] + counts["UPDATE"] + counts["DELETE"] + counts["NOOP"]

\* C34: process(candidates, turn) returns one decision per candidate, in
\* the order of the candidates, each with one operation out of ADD, UPDATE,
\* DELETE, NOOP; so the per-operation counts the background thread derives
\* from the decisions sum to the number of candidates.
C34_OneDecisionPerCandidate ==
    [][(calls' = calls + 1 /\ last'.op = "process") =>
        LET cs == batch.cands
            ds == last'.ret
        IN /\ Len(ds) = Len(cs)
           /\ \A i \in DOMAIN ds :
                 /\ ds[i].candidate = cs[i]
                 /\ ds[i].operation \in CuratorOp
           /\ DOMAIN OpCounts(ds) = CuratorOp
           /\ SumCounts(OpCounts(ds)) = Len(cs)
      ]_vars

\* process has returned two decisions with different operations, one NOOP.
C34_Witness ==
    /\ last.op = "process"
    /\ Len(last.ret) = 2
    /\ last.ret[1].candidate # last.ret[2].candidate
    /\ last.ret[1].operation # last.ret[2].operation
    /\ last.ret[2].operation = "NOOP"

(***************************************************************************)
(* Claims about the prompt block (specification SpecOracle).               *)
(***************************************************************************)
\* The place of the kind ty in the fixed order of the groups.
Priority(ty) == CHOOSE i \in DOMAIN PRIORITY_ORDER : PRIORITY_ORDER[i] = ty

\* The positions of the lines of one sort in a block.
LinesOf(block, sort) == {i \in DOMAIN block : block[i].line = sort}

\* The k-th of the positions P, counted from the top.
Nth(P, k) == CHOOSE p \in P : Cardinality({q \in P : q < p}) = k - 1

\* The place in the ranked list of records objs of the one that comes k-th
\* when the list is read kind by kind in the fixed order, ranks kept
\* within a kind.
KthByKind(objs, k) ==
    CHOOSE i \in DOMAIN objs :
        Cardinality({j \in DOMAIN objs :
            \/ Priority(objs[j].type) < Priority(objs[i].type)
            \/ (objs[j].type = objs[i].type /\ j < i)}) = k - 1

\* C35: the block built from the accepted records opens and closes with
\* the context tags; its group headers are the kinds of the accepted
\* records, each once, in the order constraint, commitment, preference,
\* fact, entity whatever the rank of the records; every accepted record has
\* exactly one item line, under the header of its kind, records of one kind
\* in rank order; with no accepted record the block is empty and the system
\* prompt is the base text.
C35_BlockGroupsByKindInFixedOrder ==
    [][(calls' = calls + 1 /\ last'.op = "retrieve") =>
        \A block \in {last'.ret.prompt_block} :
        \A objs \in {[i \in DOMAIN last'.ret.memories |->
                        WarmObj(store', last'.ret.memories[i])]} :
        \A headers \in {LinesOf(block, "header")} :
        \A items \in {LinesOf(block, "item")} :
           IF objs = <<>>
           THEN /\ block = <<>>
                /\ BuildSystemPrompt("base", block) = "base"
           ELSE /\ block[1].line = "<memory_context>"
                /\ block[Len(block)].line = "</memory_context>"
                /\ Len(block) = 2 + Cardinality(headers) + Cardinality(items)
                /\ {block[h].type : h \in headers}
                      = {objs[i].type : i \in DOMAIN objs}
                /\ \A h1, h2 \in headers :
                      h1 < h2 => Priority(block[h1].type) < Priority(block[h2].type)
                /\ Cardinality(items) = Len(objs)
                /\ \A k \in DOMAIN objs :
                      \A p \in {Nth(items, k)} :
                      \A o \in {objs[KthByKind(objs, k)]} :
                         /\ block[p].key = o.key
                         /\ block[p].value = o.value
                         /\ block[MaxOf({h \in headers : h < p})].type = o.type
                /\ BuildSystemPrompt("base", block) # "base"
      ]_vars

\* A retrieval accepted a fact ranked above a commitment, and two facts
\* whose rank order is not the order in which they were stored.
C35_Witness ==
    /\ last.op = "retrieve"
    /\ \E i, j \in DOMAIN last.ret.memories :
          /\ i < j
          /\ WarmObj(store, last.ret.memories[i]).type = "fact"
          /\ WarmObj(store, last.ret.memories[j]).type = "commitment"
    /\ \E i, j \in DOMAIN last.ret.memories :
          /\ i < j
          /\ last.ret.memories[i] > last.ret.memories[j]
          /\ WarmObj(store, last.ret.memories[i]).type = "fact"
          /\ WarmObj(store, last.ret.memories[j]).type = "fact"
          /\ WarmObj(store, last.ret.memories[i]).key
                # WarmObj(store, last.ret.memories[j]).key

(***************************************************************************)
(* Claims about a turn's retrieval running beside an earlier turn's        *)
(* background thread (specifications SpecRace and SpecEngine).             *)
(***************************************************************************)
\* The ids the decay sweeps of the background threads have reported.
ReportedEvicted == UNION {Range(tasks[t].evicted) : t \in TaskIds}

\* C36: an id a decay sweep has reported as evicted is from then on in
\* neither the searchable tier (cache and collection) nor the durable
\* tier, whatever the caller's retrieval does meanwhile.
C36_EvictionIsFinal ==
    \A id \in ReportedEvicted : ~InSomeTier(store, id)

\* The thread of turn t has run its process and its decay sweep.
HasRunCurator(t) == tasks[t].pc \in {"write", "exit", "done"}

\* The thread of turn t has entered the with self._lock block.
HasEntered(t) == tasks[t].pc \notin {"none", "acquire"}

\* C37: the background threads apply their effects in turn order: the
\* thread of a turn m enters its block (extraction, process, sweep) only
\* when the thread of every earlier turn n < m has run its process and its
\* sweep.
C37_CuratorRunsInTurnOrder ==
    \A n, m \in TaskIds :
        (n < m /\ HasEntered(m)) => HasRunCurator(n)

\* C38: in every TurnResult chat() has returned, the four background
\* fields (sentinel_extracted, memories_added, curator_ops, evicted) are
\* all the defaults, or all what the thread of that same turn wrote, that
\* thread having ended; never some of each.
C38_ReportIsAllOrNothing ==
    \A i \in DOMAIN results :
        \/ HasDefaults(results[i].result)
        \/ /\ HasOutputs(results[i].result)
           /\ tasks[results[i].result.turn_number].pc = "done"

\* Two turns have returned, the first with the defaults although its
\* thread has since written an extracted record, the second with the
\* outputs of its own thread, which differ from those of the first.
C38_Witness ==
    /\ Len(results) = 2
    /\ HasDefaults(results[1].result)
    /\ DOMAIN tasks[1].async_output # {}
    /\ tasks[1].async_output.sentinel_extracted = 1
    /\ HasOutputs(results[2].result)
    /\ results[2].result.turn_number = 2
    /\ results[2].result.memories_added # <<>>
    /\ tasks[2].async_output # tasks[1].async_output

=============================================================================
